---- MODULE Spec2Model ----
(***************************************************************************)
(* Model of ImgDiffer (src/pyqt_test_sandals.py): the image difference     *)
(* engine used by check_widget_snapshot, driven by a caller that builds    *)
(* two images, constructs one differ, and calls get_diff() and report().   *)
(*                                                                         *)
(* Three specifications share the module:                                  *)
(*   Spec          one caller, get_diff() and report() as whole calls;     *)
(*   SpecThreads   two get_diff() invocations, statement by statement;     *)
(*   SpecSnapshot  check_widget_snapshot() on the files of a folder.       *)
(* Each keeps the variables of the other two at a fixed idle value.        *)
(*                                                                         *)
(* Python floats are modelled as fixed-point integers with FP units per    *)
(* 1.0 (rounding towards zero); a percentage p is the integer p * FP.      *)
(* None is the integer None (-1), outside every value range.               *)
(***************************************************************************)
EXTENDS Integers, Sequences, FiniteSets, TLC

\* ---------------------------------------------------------------- bounds
MaxArea == 2       \* largest number of pixels of an image the callers build
FP == 10000        \* fixed-point units per 1.0
SqrtScale == 64    \* sub-unit resolution of the square root

\* ------------------------------------------------------------- constants
None == -1
DIFF_MAX == 255
DIFF_REF_COLOR == 0
MaxPerc == 100     \* upper end of the range of rms_tol_perc and num_tol_perc
MaxPix == 255      \* upper end of the range of max_pix_diff_tol

\* mutant of PIXEL_COLOR_NO_DIFF: opaque black, QColor(0, 0, 0)
PIXEL_COLOR_NO_DIFF_Opaque == <<0, 0, 0, 255>>
PIXEL_COLOR_NO_DIFF == <<DIFF_REF_COLOR, DIFF_REF_COLOR, DIFF_REF_COLOR, DIFF_REF_COLOR>>
PIXEL_COLOR_NO_PIXEL == <<255, 255, 255, 255>>
\* content of a pixel of a freshly allocated QImage that was never written
PIXEL_UNWRITTEN == <<None, None, None, None>>

\* colours the callers paint with: transparent black, the test colour and white
Palette == {<<0, 0, 0, 0>>, <<103, 104, 105, 106>>, <<255, 255, 255, 255>>}

\* ---------------------------------------------------------------- images
\* QImage: width, height and one colour per valid coordinate. A QImage with
\* no pixels (QImage(), QImage(0, h, format)) has width() = 0 and height() = 0.
Coords(w, h) == (0..(w - 1)) \X (0..(h - 1))
EmptyImage == [w |-> 0, h |-> 0, pix |-> [p \in {} |-> PIXEL_UNWRITTEN]]
Sizes == {s \in (1..MaxArea) \X (1..MaxArea) : s[1] * s[2] <= MaxArea}
\* the actual images: any content, any size, or no pixels
Images == {EmptyImage} \cup
          UNION {{[w |-> s[1], h |-> s[2], pix |-> f] : f \in [Coords(s[1], s[2]) -> Palette]} : s \in Sizes}
\* the reference images: filled with one colour, any size, or no pixels
RefImages == {EmptyImage} \cup
             {[w |-> s[1], h |-> s[2], pix |-> [p \in Coords(s[1], s[2]) |-> c]] : s \in Sizes, c \in Palette}

valid(img, i, j) == i >= 0 /\ i < img.w /\ j >= 0 /\ j < img.h
pixelColor(img, i, j) == img.pix[<<i, j>>]
setPixelColor(img, i, j, c) ==
    IF valid(img, i, j) THEN [img EXCEPT !.pix[<<i, j>>] = c] ELSE img
QImage(w, h) ==
    IF w <= 0 \/ h <= 0 THEN EmptyImage
    ELSE [w |-> w, h |-> h, pix |-> [p \in Coords(w, h) |-> PIXEL_UNWRITTEN]]

\* ------------------------------------------------------------ arithmetic
Max2(a, b) == IF a >= b THEN a ELSE b
Abs(x) == IF x < 0 THEN 0 - x ELSE x
\* mutant of MaxOf: the first channel instead of the largest
MaxOf_First(seq) == seq[1]
MaxOf(seq) == CHOOSE m \in {seq[k] : k \in 1..Len(seq)} : \A k \in 1..Len(seq) : seq[k] <= m
SumOf(seq) == seq[1] + seq[2] + seq[3] + seq[4]

\* floor of the square root, by bisection on lo..hi (lo*lo <= n < (hi+1)*(hi+1))
RECURSIVE IsqrtIn(_, _, _)
IsqrtIn(n, lo, hi) ==
    IF lo >= hi THEN lo
    ELSE LET mid == (lo + hi + 1) \div 2
         IN IF mid * mid <= n THEN IsqrtIn(n, mid, hi) ELSE IsqrtIn(n, lo, mid - 1)
Isqrt(n) == IsqrtIn(n, 0, 46340)

\* float(x) of a percentage given as a number
ToFloat(x) == x * FP

\* ------------------------------------------------------------- ImgDiffer
\* arguments the callers construct a differ with (None: not given)
RmsTolArgs == {None, 0, 41, MaxPerc}
NumTolArgs == {None, 0, 50, MaxPerc}
MaxPixTolArgs == {None, 0, 106, MaxPix}
CtorArgs == [rms_tol_perc : RmsTolArgs, num_tol_perc : NumTolArgs, max_pix_diff_tol : MaxPixTolArgs]

\* mutant of ImgDiffer: the default for a differ constructed without arguments is lost
ImgDiffer_NoDefault(a) ==
    [rms_tol_perc     |-> IF a.rms_tol_perc = None THEN None ELSE ToFloat(a.rms_tol_perc),
     num_tol_perc     |-> IF a.num_tol_perc = None THEN None ELSE ToFloat(a.num_tol_perc),
     max_pix_diff_tol |-> a.max_pix_diff_tol,
     diff_rms_perc    |-> None,
     num_diffs_perc   |-> None,
     max_pix_diff     |-> None]

\* ImgDiffer.__init__(rms_tol_perc, num_tol_perc, max_pix_diff_tol)
ImgDiffer(a) ==
    LET rms == IF a.rms_tol_perc = None /\ a.num_tol_perc = None /\ a.max_pix_diff_tol = None
               THEN 0 ELSE a.rms_tol_perc
    IN [rms_tol_perc     |-> IF rms = None THEN None ELSE ToFloat(rms),
        num_tol_perc     |-> IF a.num_tol_perc = None THEN None ELSE ToFloat(a.num_tol_perc),
        max_pix_diff_tol |-> a.max_pix_diff_tol,
        diff_rms_perc    |-> None,
        num_diffs_perc   |-> None,
        max_pix_diff     |-> None]

\* ImgDiffer._get_pixel_diff: the RMS over the 4 channels, as a fixed-point fraction
PixelDiffRms(pix_rgba, ref_pix_rgba) ==
    LET sq == [k \in 1..4 |-> (pix_rgba[k] - ref_pix_rgba[k]) * (pix_rgba[k] - ref_pix_rgba[k])]
    IN (Isqrt(SumOf(sq) * SqrtScale * SqrtScale) * FP) \div (SqrtScale * 2 * DIFF_MAX)

\* mutant of PixelDiffColor: the difference of the channels without abs()
PixelDiffColor_Signed(pix_rgba, ref_pix_rgba) ==
    [k \in 1..4 |-> pix_rgba[k] - ref_pix_rgba[k]]

\* ImgDiffer._get_pixel_diff: the absolute difference of the channels
PixelDiffColor(pix_rgba, ref_pix_rgba) ==
    [k \in 1..4 |-> Abs(pix_rgba[k] - ref_pix_rgba[k])]

\* body of the two nested loops of get_diff at coordinate (i, j); st holds the
\* locals diff_rms, num_diffs, total_num_pixels, diff_image and self.max_pix_diff
LoopBody(image, ref_image, i, j, st) ==
    LET actual_valid_coord == valid(image, i, j)
        ref_valid_coord == valid(ref_image, i, j)
    IN IF actual_valid_coord /\ ref_valid_coord THEN
           LET pixel == pixelColor(image, i, j)
               ref_pixel == pixelColor(ref_image, i, j)
           IN IF pixel = ref_pixel THEN
                  [st EXCEPT !.total_num_pixels = @ + 1,
                             !.diff_image = setPixelColor(@, i, j, PIXEL_COLOR_NO_DIFF)]
              ELSE
                  LET diff_rms_pix == PixelDiffRms(pixel, ref_pixel)
                      diff_color == PixelDiffColor(pixel, ref_pixel)
                      max_diff == MaxOf(diff_color)
                  IN [st EXCEPT !.total_num_pixels = @ + 1,
                                !.num_diffs = @ + 1,
                                !.diff_rms = @ + diff_rms_pix,
                                !.max_pix_diff = IF max_diff > @ THEN max_diff ELSE @,
                                !.diff_image = setPixelColor(@, i, j, diff_color)]
       ELSE IF actual_valid_coord THEN
           [st EXCEPT !.diff_image = setPixelColor(@, i, j, pixelColor(image, i, j))]
       ELSE IF ref_valid_coord THEN
           [st EXCEPT !.diff_image = setPixelColor(@, i, j, pixelColor(ref_image, i, j))]
       ELSE
           [st EXCEPT !.diff_image = setPixelColor(@, i, j, PIXEL_COLOR_NO_PIXEL)]

\* mutant of Loop: the inner index taken modulo the width instead of the height
RECURSIVE Loop_InnerOverWidth(_, _, _, _)
Loop_InnerOverWidth(image, ref_image, k, st) ==
    LET diff_width == st.diff_image.w
        diff_height == st.diff_image.h
    IN IF k >= diff_width * diff_height THEN st
       ELSE Loop_InnerOverWidth(image, ref_image, k + 1,
                                LoopBody(image, ref_image, k \div diff_height, k % diff_width, st))

\* for i in range(diff_width): for j in range(diff_height): the k-th iteration
\* visits (k div diff_height, k mod diff_height)
RECURSIVE Loop(_, _, _, _)
Loop(image, ref_image, k, st) ==
    LET diff_width == st.diff_image.w
        diff_height == st.diff_image.h
    IN IF k >= diff_width * diff_height THEN st
       ELSE Loop(image, ref_image, k + 1,
                 LoopBody(image, ref_image, k \div diff_height, k % diff_height, st))

\* mutant of RmsOk: < for <=
RmsOk_Strict(self, diff_rms_perc) == self.rms_tol_perc = None \/ diff_rms_perc < self.rms_tol_perc
\* mutant of MaxPixDiffOk: the comparison the wrong way round
MaxPixDiffOk_Flipped(self, max_pix_diff) == self.max_pix_diff_tol = None \/ max_pix_diff >= self.max_pix_diff_tol
\* mutant of DiffAcceptable: the tolerances ORed
DiffAcceptable_Ored(rms_ok, num_diff_ok, max_pix_diff_ok) == rms_ok \/ num_diff_ok \/ max_pix_diff_ok

\* the three tolerance tests and their conjunction
RmsOk(self, diff_rms_perc) == self.rms_tol_perc = None \/ diff_rms_perc <= self.rms_tol_perc
NumDiffOk(self, num_diffs_perc) == self.num_tol_perc = None \/ num_diffs_perc <= self.num_tol_perc
MaxPixDiffOk(self, max_pix_diff) == self.max_pix_diff_tol = None \/ max_pix_diff <= self.max_pix_diff_tol
DiffAcceptable(rms_ok, num_diff_ok, max_pix_diff_ok) == rms_ok /\ num_diff_ok /\ max_pix_diff_ok

\* whether get_diff returns the diff image when no overlapping pixel differs
SameSize(image, ref_image) == ref_image.w = image.w /\ ref_image.h = image.h

\* mutant of Verdict: the percentage of differing pixels taken over the whole diff
\* image instead of over the coordinates valid in both images
Verdict_CanvasDenominator(self, image, ref_image, st) ==
    LET self1 == [self EXCEPT !.max_pix_diff = st.max_pix_diff]
    IN IF st.total_num_pixels = 0 THEN
           [self |-> self1, ret |-> "ZeroDivisionError", diff_image |-> st.diff_image]
       ELSE
           LET num_diffs_perc ==
                   ((st.num_diffs * FP) \div (st.diff_image.w * st.diff_image.h)) * 100
           IN IF st.num_diffs = 0 THEN
                  [self |-> [self1 EXCEPT !.num_diffs_perc = num_diffs_perc, !.diff_rms_perc = 0],
                   ret |-> IF SameSize(image, ref_image) THEN "None" ELSE "diff_image",
                   diff_image |-> st.diff_image]
              ELSE
                  LET diff_rms_perc == (st.diff_rms \div st.num_diffs) * 100
                      self2 == [self1 EXCEPT !.num_diffs_perc = num_diffs_perc,
                                             !.diff_rms_perc = diff_rms_perc]
                      diff_acceptable == DiffAcceptable(RmsOk(self2, self2.diff_rms_perc),
                                                        NumDiffOk(self2, self2.num_diffs_perc),
                                                        MaxPixDiffOk(self2, self2.max_pix_diff))
                  IN [self |-> self2,
                      ret |-> IF diff_acceptable THEN "None" ELSE "diff_image",
                      diff_image |-> st.diff_image]

\* get_diff after its loops (lines 138-153): the differ after the call, what the
\* call returned ("None", "diff_image") or raised, and the diff image it built
Verdict(self, image, ref_image, st) ==
    LET self1 == [self EXCEPT !.max_pix_diff = st.max_pix_diff]
    IN IF st.total_num_pixels = 0 THEN
           [self |-> self1, ret |-> "ZeroDivisionError", diff_image |-> st.diff_image]
       ELSE
           LET num_diffs_perc == ((st.num_diffs * FP) \div st.total_num_pixels) * 100
           IN IF st.num_diffs = 0 THEN
                  [self |-> [self1 EXCEPT !.num_diffs_perc = num_diffs_perc, !.diff_rms_perc = 0],
                   ret |-> IF SameSize(image, ref_image) THEN "None" ELSE "diff_image",
                   diff_image |-> st.diff_image]
              ELSE
                  LET diff_rms_perc == (st.diff_rms \div st.num_diffs) * 100
                      self2 == [self1 EXCEPT !.num_diffs_perc = num_diffs_perc,
                                             !.diff_rms_perc = diff_rms_perc]
                      diff_acceptable == DiffAcceptable(RmsOk(self2, self2.diff_rms_perc),
                                                        NumDiffOk(self2, self2.num_diffs_perc),
                                                        MaxPixDiffOk(self2, self2.max_pix_diff))
                  IN [self |-> self2,
                      ret |-> IF diff_acceptable THEN "None" ELSE "diff_image",
                      diff_image |-> st.diff_image]

\* ImgDiffer.get_diff(image, ref_image)
get_diff(self, image, ref_image) ==
    LET diff_width == Max2(ref_image.w, image.w)
        diff_height == Max2(ref_image.h, image.h)
    IN Verdict(self, image, ref_image,
               Loop(image, ref_image, 0,
                    [diff_rms |-> 0, num_diffs |-> 0, max_pix_diff |-> 0, total_num_pixels |-> 0,
                     diff_image |-> QImage(diff_width, diff_height)]))

\* ImgDiffer.report(): '{:.2f}%'.format(x) raises TypeError when x is None; the two
\* max-pix-diff fields are formatted with '{}', which accepts None
report(self) ==
    LET results == <<self.diff_rms_perc, self.rms_tol_perc, self.num_diffs_perc, self.num_tol_perc>>
    IN IF \E k \in 1..4 : results[k] = None THEN "TypeError" ELSE "str"

\* ----------------------------------------------------------------- state
VARIABLES
    ctor_args,    \* the arguments the differ was constructed with
    differ,       \* the ImgDiffer instance: its three tolerances and three result fields
    image,        \* the caller's actual image
    ref_image,    \* the caller's reference image
    ret,          \* outcome of the last get_diff: "None", "diff_image", "ZeroDivisionError"
    diff_image,   \* the diff image the last get_diff built
    report_out,   \* outcome of a report() made since the last other call
    pc,           \* "constructed", "returned" (get_diff ran on image, ref_image), "changed"
    \* two get_diff invocations running at the same time (threads 1 and 2)
    shared,       \* whether the two invocations are made on the same instance
    thread_args,  \* the arguments the instances of the two invocations were constructed with
    instances,    \* the instance(s) the invocations run on; only instances[1] when shared
    threads,      \* per invocation: its arguments, its locals and its position in get_diff
    \* check_widget_snapshot and the folder of the reference images
    fig_name,     \* the fig_name the calls are made with, as stem and suffix
    folder,       \* the files of the reference folder: file name -> content
    call,         \* the last call of check_widget_snapshot: arguments, grabs, outcome
    \* pyqt_sandals: signals and slots
    connections,  \* <<signal, slot>> -> the number of connections Qt holds between them
    exc_format,   \* which text the PyQt build gives the TypeError of a failed connect
    probe,        \* the last call of is_connected / is_connected_obj
    \* tempchdir: the process's working directory and a with TempChDir(path) block
    cwd,          \* os.getcwd()
    names_bound,  \* whether the names os and Path are bound in the module of the class
    block,        \* the with block: where it is, the TempChDir instance, the cwd at entry
    \* reflow(lines, width): strings are sequences of characters
    text,            \* the argument lines, the text to reflow
    width,           \* the argument width
    lines,           \* lines.splitlines()
    line_no,         \* the index in lines of the line the for loop takes next
    state,           \* 'new', 'paragraph' or 'list_item'
    group,           \* the lines of the paragraph or list item being read
    reflowed_lines,  \* the output lines so far
    result,          \* what the call returned or raised, or that it is running
    \* helm: install_hashed_chart
    helm,            \* the call: its arguments, its locals and where it is
    commands,        \* the commands run so far, in their order
    charts           \* the chart folders: path -> version and appVersion of Chart.yaml

differ_vars == <<ctor_args, differ, image, ref_image, ret, diff_image, report_out, pc>>
thread_vars == <<shared, thread_args, instances, threads>>
snapshot_vars == <<fig_name, folder, call>>
conn_vars == <<connections, exc_format, probe>>
chdir_vars == <<cwd, names_bound, block>>
reflow_vars == <<text, width, lines, line_no, state, group, reflowed_lines, result>>
helm_vars == <<helm, commands, charts>>
util_vars == <<conn_vars, chdir_vars, reflow_vars, helm_vars>>
vars == <<differ_vars, thread_vars, snapshot_vars, util_vars>>
\* the variables each specification leaves alone
not_differ_vars == <<thread_vars, snapshot_vars, util_vars>>
not_thread_vars == <<differ_vars, snapshot_vars, util_vars>>
not_snapshot_vars == <<differ_vars, thread_vars, util_vars>>
not_conn_vars == <<differ_vars, thread_vars, snapshot_vars, chdir_vars, reflow_vars, helm_vars>>
not_chdir_vars == <<differ_vars, thread_vars, snapshot_vars, conn_vars, reflow_vars, helm_vars>>
not_reflow_vars == <<differ_vars, thread_vars, snapshot_vars, conn_vars, chdir_vars, helm_vars>>
not_helm_vars == <<differ_vars, thread_vars, snapshot_vars, conn_vars, chdir_vars, reflow_vars>>

\* no invocation of get_diff is running on another thread
NoThreads ==
    /\ shared = FALSE
    /\ thread_args = [rms_tol_perc |-> None, num_tol_perc |-> None, max_pix_diff_tol |-> None]
    /\ instances = <<>>
    /\ threads = <<>>

\* no call of check_widget_snapshot, no folder
NoSnapshot ==
    /\ fig_name = [stem |-> "", suffix |-> ""]
    /\ folder = <<>>
    /\ call = [called |-> FALSE]

\* no signal, no slot, no call of is_connected
NoConnections ==
    /\ connections = <<>>
    /\ exc_format = ""
    /\ probe = [called |-> FALSE]

\* nothing of the utility modules is in use
\* no with TempChDir block
NoChDir ==
    /\ cwd = ""
    /\ names_bound = FALSE
    /\ block = [at |-> "none"]

\* no call of reflow
NoReflow ==
    /\ text = <<>>
    /\ width = 0
    /\ lines = <<>>
    /\ line_no = 0
    /\ state = ""
    /\ group = <<>>
    /\ reflowed_lines = <<>>
    /\ result = [kind |-> "none"]

\* no call of install_hashed_chart
NoHelm ==
    /\ helm = [pc |-> "none"]
    /\ commands = <<>>
    /\ charts = <<>>

NoUtils ==
    NoConnections /\ NoChDir /\ NoReflow /\ NoHelm

Init ==
    /\ ctor_args \in CtorArgs
    /\ differ = ImgDiffer(ctor_args)
    /\ image \in Images
    /\ ref_image \in RefImages
    /\ ret = "none_yet"
    /\ diff_image = EmptyImage
    /\ report_out = "none"
    /\ pc = "constructed"
    /\ NoThreads
    /\ NoSnapshot
    /\ NoUtils

\* diff = differ.get_diff(image, ref_image)
GetDiff ==
    \E r \in {get_diff(differ, image, ref_image)} :
       /\ differ' = r.self
       /\ ret' = r.ret
       /\ diff_image' = r.diff_image
       /\ report_out' = "none"
       /\ pc' = "returned"
       /\ UNCHANGED <<ctor_args, image, ref_image>>
       /\ UNCHANGED not_differ_vars

\* differ.report()
Report ==
    /\ pc = "returned"
    /\ report_out = "none"
    /\ report_out' = report(differ)
    /\ UNCHANGED <<ctor_args, differ, image, ref_image, ret, diff_image, pc>>
    /\ UNCHANGED not_differ_vars

\* the caller drops the diff it got and clears one pixel of the actual image
\* (test_same_size_one_pixel_diff: actual_img.setPixelColor(50, 50, ...))
SetPixelColor ==
    /\ pc = "returned"
    /\ \E p \in Coords(image.w, image.h) :
          /\ pixelColor(image, p[1], p[2]) # <<0, 0, 0, 0>>
          /\ image' = setPixelColor(image, p[1], p[2], <<0, 0, 0, 0>>)
    /\ ret' = "none_yet"
    /\ diff_image' = EmptyImage
    /\ report_out' = "none"
    /\ pc' = "changed"
    /\ UNCHANGED <<ctor_args, differ, ref_image>>
    /\ UNCHANGED not_differ_vars

\* the caller drops the diff it got and replaces the actual image by one without pixels
SetEmptyImage ==
    /\ pc = "returned"
    /\ image # EmptyImage
    /\ image' = EmptyImage
    /\ ret' = "none_yet"
    /\ diff_image' = EmptyImage
    /\ report_out' = "none"
    /\ pc' = "changed"
    /\ UNCHANGED <<ctor_args, differ, ref_image>>
    /\ UNCHANGED not_differ_vars

Next == GetDiff \/ Report \/ SetPixelColor \/ SetEmptyImage

Spec == Init /\ [][Next]_vars

TypeOK ==
    /\ ctor_args \in CtorArgs
    /\ image \in Images /\ ref_image \in RefImages
    /\ ret \in {"none_yet", "None", "diff_image", "ZeroDivisionError"}
    /\ report_out \in {"none", "str", "TypeError"}
    /\ pc \in {"constructed", "returned", "changed"}

\* ------------------------------------------- get_diff on two threads
\* get_diff statement by statement: a thread switch can fall between any two reads or
\* writes of the instance's fields (lines 103, 123, 124, 138, 140, 147, 149, 150, 151);
\* everything else of get_diff works on locals of the invocation
Threads == {1, 2}

\* mutant of InstanceOf: the result fields kept in one place for all instances
InstanceOf_OneForAll(t) == 1
\* self of the invocation of thread t
InstanceOf(t) == IF shared THEN 1 ELSE t

ThreadCtorArgs ==
    {a \in CtorArgs : /\ a.rms_tol_perc = None
                      /\ a.num_tol_perc \in {None, 50}
                      /\ a.max_pix_diff_tol \in {None, 106}}
\* the images the threads compare: one pixel of any colour, or no pixel
PixelImage(c) == [w |-> 1, h |-> 1, pix |-> [p \in Coords(1, 1) |-> c]]
ThreadImages == {EmptyImage} \cup {PixelImage(c) : c \in Palette}
ThreadRefImages == {PixelImage(c) : c \in Palette}

\* the locals of get_diff before its first statement
Locals(diff_image_) ==
    [diff_rms |-> 0, num_diffs |-> 0, max_pix_diff |-> 0, total_num_pixels |-> 0,
     diff_image |-> diff_image_]
ThreadStart(image_, ref_image_) ==
    [pc |-> "start", image |-> image_, ref_image |-> ref_image_, k |-> 0,
     st |-> Locals(EmptyImage), rms_ok |-> FALSE, num_diff_ok |-> FALSE, ret |-> "none_yet"]

\* no caller of the sequential specification
NoCaller ==
    /\ ctor_args = [rms_tol_perc |-> None, num_tol_perc |-> None, max_pix_diff_tol |-> None]
    /\ differ = ImgDiffer(ctor_args)
    /\ image = EmptyImage /\ ref_image = EmptyImage
    /\ ret = "none_yet" /\ diff_image = EmptyImage
    /\ report_out = "none" /\ pc = "constructed"

InitThreads ==
    /\ shared \in BOOLEAN
    /\ thread_args \in ThreadCtorArgs
    /\ instances = [i \in Threads |-> ImgDiffer(thread_args)]
    /\ threads \in [Threads -> {ThreadStart(i, r) : i \in ThreadImages, r \in ThreadRefImages}]
    /\ NoCaller
    /\ NoSnapshot
    /\ NoUtils

\* lines 97-104: the diff image is allocated, the locals and self.max_pix_diff are zeroed
T_Start(t) ==
    /\ threads[t].pc = "start"
    /\ instances' = [instances EXCEPT ![InstanceOf(t)].max_pix_diff = 0]
    /\ threads' = [threads EXCEPT
                      ![t].pc = "loop",
                      ![t].st = Locals(QImage(Max2(threads[t].ref_image.w, threads[t].image.w),
                                              Max2(threads[t].ref_image.h, threads[t].image.h)))]
    /\ UNCHANGED <<shared, thread_args, not_thread_vars>>

\* lines 106-136, one iteration up to the test of line 123, which reads self.max_pix_diff;
\* when the test succeeds the assignment of line 124 is a step of its own
T_LoopBody(t) ==
    /\ threads[t].pc = "loop"
    /\ threads[t].k < threads[t].st.diff_image.w * threads[t].st.diff_image.h
    /\ \E st1 \in {LoopBody(threads[t].image, threads[t].ref_image,
                            threads[t].k \div threads[t].st.diff_image.h,
                            threads[t].k % threads[t].st.diff_image.h,
                            [threads[t].st EXCEPT
                                !.max_pix_diff = instances[InstanceOf(t)].max_pix_diff])} :
          IF st1.max_pix_diff # instances[InstanceOf(t)].max_pix_diff
          THEN threads' = [threads EXCEPT ![t].pc = "set_max_pix_diff", ![t].st = st1]
          ELSE threads' = [threads EXCEPT ![t].k = @ + 1, ![t].st = st1]
    /\ UNCHANGED <<shared, thread_args, instances, not_thread_vars>>

\* line 124: self.max_pix_diff = max_diff
T_SetMaxPixDiff(t) ==
    /\ threads[t].pc = "set_max_pix_diff"
    /\ instances' = [instances EXCEPT ![InstanceOf(t)].max_pix_diff = threads[t].st.max_pix_diff]
    /\ threads' = [threads EXCEPT ![t].pc = "loop", ![t].k = @ + 1]
    /\ UNCHANGED <<shared, thread_args, not_thread_vars>>

\* line 138, after the loops: self.num_diffs_perc = (num_diffs / total_num_pixels) * 100
T_NumDiffsPerc(t) ==
    /\ threads[t].pc = "loop"
    /\ threads[t].k >= threads[t].st.diff_image.w * threads[t].st.diff_image.h
    /\ IF threads[t].st.total_num_pixels = 0
       THEN /\ threads' = [threads EXCEPT ![t].pc = "done", ![t].ret = "ZeroDivisionError"]
            /\ UNCHANGED instances
       ELSE /\ instances' = [instances EXCEPT ![InstanceOf(t)].num_diffs_perc =
                                ((threads[t].st.num_diffs * FP) \div threads[t].st.total_num_pixels) * 100]
            /\ threads' = [threads EXCEPT ![t].pc = "diff_rms_perc"]
    /\ UNCHANGED <<shared, thread_args, not_thread_vars>>

\* lines 139-147: self.diff_rms_perc is set; without a differing pixel the call returns
T_DiffRmsPerc(t) ==
    /\ threads[t].pc = "diff_rms_perc"
    /\ IF threads[t].st.num_diffs = 0
       THEN /\ instances' = [instances EXCEPT ![InstanceOf(t)].diff_rms_perc = 0]
            /\ threads' = [threads EXCEPT
                              ![t].pc = "done",
                              ![t].ret = IF SameSize(threads[t].image, threads[t].ref_image)
                                         THEN "None" ELSE "diff_image"]
       ELSE /\ instances' = [instances EXCEPT ![InstanceOf(t)].diff_rms_perc =
                                (threads[t].st.diff_rms \div threads[t].st.num_diffs) * 100]
            /\ threads' = [threads EXCEPT ![t].pc = "rms_ok"]
    /\ UNCHANGED <<shared, thread_args, not_thread_vars>>

\* line 149: rms_ok, from self.diff_rms_perc as it is now
T_RmsOk(t) ==
    /\ threads[t].pc = "rms_ok"
    /\ threads' = [threads EXCEPT
                      ![t].pc = "num_diff_ok",
                      ![t].rms_ok = RmsOk(instances[InstanceOf(t)],
                                          instances[InstanceOf(t)].diff_rms_perc)]
    /\ UNCHANGED <<shared, thread_args, instances, not_thread_vars>>

\* line 150: num_diff_ok, from self.num_diffs_perc as it is now
T_NumDiffOk(t) ==
    /\ threads[t].pc = "num_diff_ok"
    /\ threads' = [threads EXCEPT
                      ![t].pc = "max_pix_diff_ok",
                      ![t].num_diff_ok = NumDiffOk(instances[InstanceOf(t)],
                                                   instances[InstanceOf(t)].num_diffs_perc)]
    /\ UNCHANGED <<shared, thread_args, instances, not_thread_vars>>

\* lines 151-153: max_pix_diff_ok, from self.max_pix_diff as it is now, and the return
T_MaxPixDiffOk(t) ==
    /\ threads[t].pc = "max_pix_diff_ok"
    /\ threads' = [threads EXCEPT
                      ![t].pc = "done",
                      ![t].ret = IF DiffAcceptable(threads[t].rms_ok, threads[t].num_diff_ok,
                                                   MaxPixDiffOk(instances[InstanceOf(t)],
                                                                instances[InstanceOf(t)].max_pix_diff))
                                 THEN "None" ELSE "diff_image"]
    /\ UNCHANGED <<shared, thread_args, instances, not_thread_vars>>

NextThreads ==
    \/ \E t \in Threads : T_Start(t)
    \/ \E t \in Threads : T_LoopBody(t)
    \/ \E t \in Threads : T_SetMaxPixDiff(t)
    \/ \E t \in Threads : T_NumDiffsPerc(t)
    \/ \E t \in Threads : T_DiffRmsPerc(t)
    \/ \E t \in Threads : T_RmsOk(t)
    \/ \E t \in Threads : T_NumDiffOk(t)
    \/ \E t \in Threads : T_MaxPixDiffOk(t)

SpecThreads == InitThreads /\ [][NextThreads]_vars

\* ------------------------------------------------ check_widget_snapshot
TrySec == 2        \* the try_sec of a call that retries, in ticks of the clock
TryInterval == 1   \* try_interval, in ticks: one sleep of the retry loop

\* a file name as pathlib splits it: the stem and the last suffix ("" when there is none)
FigNames == {[stem |-> "label", suffix |-> ""],
             [stem |-> "label", suffix |-> ".png"],
             [stem |-> "label", suffix |-> ".v2"]}
Str(name) == name.stem \o name.suffix
\* Path.with_suffix: the last suffix replaced, or the suffix added when there is none
with_suffix(name, suffix) == [stem |-> name.stem, suffix |-> suffix]
\* lines 227-229: the three paths of a call, as file names in the reference folder
RefPixmapPath(fig) == Str(with_suffix(fig, ".png"))
ActualPixPath(fig) == Str(fig) \o "_actual.png"
DiffPixPath(fig) == Str(fig) \o "_diff.png"

\* the files of the folder: those of the three names, <fig_name>.png, and one more
FileNames ==
    UNION {{RefPixmapPath(f), Str(f) \o ".png", ActualPixPath(f), DiffPixPath(f)} : f \in FigNames}
    \cup {"other.txt"}
NoFile == [kind |-> "none"]
TextFile == [kind |-> "text"]
ImageFile(img) == [kind |-> "png", image |-> img]
exists(files, path) == files[path] # NoFile
unlink(files, path) == [files EXCEPT ![path] = NoFile]
save(files, path, img) == [files EXCEPT ![path] = ImageFile(img)]
\* QPixmap(path).toImage(): a null image when the file is not an image
Load(files, path) == IF files[path].kind = "png" THEN files[path].image ELSE EmptyImage

\* what the widget shows when it is grabbed: one pixel, black or coloured
WidgetImages == {PixelImage(<<0, 0, 0, 0>>), PixelImage(<<103, 104, 105, 106>>)}
\* the images of the successive grabs of a call; the widget changes at most once
MaxGrabs == (TrySec + TryInterval - 1) \div TryInterval + 1
GrabSeqs ==
    {g \in [1..MaxGrabs -> WidgetImages] :
        \A m \in 2..(MaxGrabs - 1) : g[m] # g[m - 1] => g[m + 1] = g[m]}

\* the arguments of a call; img_differ is None or a differ whose get_diff returns what
\* its name says (the differs of the tests); img_diff_kwargs are ImgDiffer arguments
NoKwargs == [rms_tol_perc |-> None, num_tol_perc |-> None, max_pix_diff_tol |-> None]
SnapshotArgs ==
    [ref_path : {"folder", "file", "missing"},
     delete_old_results : BOOLEAN,
     img_differ : {"None", "returns_None", "returns_image"},
     img_diff_kwargs : {NoKwargs, [NoKwargs EXCEPT !.max_pix_diff_tol = 106]},
     log : BOOLEAN,
     try_sec : {None, TrySec}]

\* lines 254-260: the retry loop after n grabs; the clock advances by try_interval per
\* iteration; gives the number of grabs made when the loop ends
\* a loop that never grabs again
Retry_Once(ref_image_, grabs, n, try_sec) ==
    n

RECURSIVE Retry(_, _, _, _)
Retry(ref_image_, grabs, n, try_sec) ==
    IF ref_image_ # grabs[n] /\ (n - 1) * TryInterval < try_sec
    THEN Retry(ref_image_, grabs, n + 1, try_sec)
    ELSE n

\* lines 267-280: the differ of the call, its get_diff and its report
DifferOutcome(a, image_, ref_image_) ==
    IF a.img_differ = "None" THEN
        LET r == get_diff(ImgDiffer(a.img_diff_kwargs), image_, ref_image_)
        IN [ret |-> r.ret, diff_image |-> r.diff_image, report |-> report(r.self)]
    ELSE IF a.img_differ = "returns_None" THEN
        [ret |-> "None", diff_image |-> EmptyImage, report |-> "str"]
    ELSE
        [ret |-> "diff_image", diff_image |-> image_, report |-> "str"]

\* the outcome of a call: the folder after it, the folder after lines 232-237, what the
\* call returned or raised, and how often it grabbed the widget and called the differ
Outcome(files, after_delete, ret_, num_grabs, get_diff_calls, report_calls) ==
    [folder |-> files, after_delete |-> after_delete, ret |-> ret_, num_grabs |-> num_grabs,
     get_diff_calls |-> get_diff_calls, report_calls |-> report_calls]

\* mutant of DeleteOldResults: only the old actual image is removed
DeleteOldResults_ActualOnly(files, fig, delete_old_results) ==
    IF delete_old_results THEN unlink(files, ActualPixPath(fig)) ELSE files

\* lines 232-237
DeleteOldResults(files, fig, delete_old_results) ==
    IF delete_old_results
    THEN unlink(unlink(files, ActualPixPath(fig)), DiffPixPath(fig))
    ELSE files

\* lines 249-296: the reference exists
CompareWithRef(files, fig, a, grabs) ==
    LET ref_image_ == Load(files, RefPixmapPath(fig))
        n == IF a.try_sec = None THEN 1 ELSE Retry(ref_image_, grabs, 1, a.try_sec)
        image_ == grabs[n]
    IN IF ref_image_ = image_ THEN Outcome(files, files, "True", n, 0, 0)
       ELSE IF a.img_differ # "None" /\ a.img_diff_kwargs # NoKwargs THEN
           Outcome(files, files, "ValueError", n, 0, 0)
       ELSE
           LET d == DifferOutcome(a, image_, ref_image_)
           IN IF d.ret = "ZeroDivisionError" THEN Outcome(files, files, d.ret, n, 1, 0)
              ELSE IF a.log /\ d.report = "TypeError" THEN Outcome(files, files, "TypeError", n, 1, 1)
              ELSE IF d.ret = "None" THEN Outcome(files, files, "True", n, 1, IF a.log THEN 1 ELSE 0)
              ELSE Outcome(save(save(files, ActualPixPath(fig), image_), DiffPixPath(fig), d.diff_image),
                           files, "False", n, 1, IF a.log THEN 1 ELSE 0)

\* check_widget_snapshot(widget, ref_path, fig_name, ...), lines 223-296, on the files
\* of the reference folder; grabs[n] is what the n-th widget.grab() of the call gives
check_widget_snapshot(files, fig, a, grabs) ==
    IF a.ref_path = "missing" THEN Outcome(files, files, "AssertionError", 0, 0, 0)
    ELSE
        LET after_delete == DeleteOldResults(files, fig, a.delete_old_results)
        IN IF ~exists(after_delete, RefPixmapPath(fig)) THEN
               Outcome(save(after_delete, RefPixmapPath(fig), grabs[1]), after_delete, "True", 1, 0, 0)
           ELSE CompareWithRef(after_delete, fig, a, grabs)

\* a folder with one file that is none of the call's; of the files of fig_name, the
\* reference is missing, an image or not an image, old results are there or not
InitSnapshot ==
    /\ fig_name \in FigNames
    /\ \E ref \in {NoFile, TextFile} \cup {ImageFile(w) : w \in WidgetImages},
          old \in {NoFile, TextFile}, named \in {NoFile, TextFile} :
          folder = [path \in FileNames |->
                        IF path = RefPixmapPath(fig_name) THEN ref
                        ELSE IF path \in {ActualPixPath(fig_name), DiffPixPath(fig_name)} THEN old
                        ELSE IF path = Str(fig_name) \o ".png" THEN named
                        ELSE IF path = "other.txt" THEN TextFile
                        ELSE NoFile]
    /\ call = [called |-> FALSE]
    /\ NoCaller
    /\ NoThreads
    /\ NoUtils

\* a test calls check_widget_snapshot
CheckWidgetSnapshot ==
    /\ ~call.called
    /\ \E a \in SnapshotArgs, grabs \in GrabSeqs :
          /\ a.try_sec = None => \A m \in DOMAIN grabs : grabs[m] = grabs[1]
          /\ \E out \in {check_widget_snapshot(folder, fig_name, a, grabs)} :
                /\ folder' = out.folder
                /\ call' = [called |-> TRUE, args |-> a, grabs |-> grabs, before |-> folder,
                            out |-> out]
    /\ UNCHANGED <<fig_name, not_snapshot_vars>>

\* a test leaves files that pretend to be previous results (test2_old_results)
WriteOldResults ==
    /\ ~call.called
    /\ ~exists(folder, ActualPixPath(fig_name)) \/ ~exists(folder, DiffPixPath(fig_name))
    /\ folder' = [folder EXCEPT ![ActualPixPath(fig_name)] = TextFile,
                                ![DiffPixPath(fig_name)] = TextFile]
    /\ UNCHANGED <<fig_name, call, not_snapshot_vars>>

\* a test removes the reference image: ref_image_path.unlink()
UnlinkRef ==
    /\ ~call.called
    /\ exists(folder, RefPixmapPath(fig_name))
    /\ folder' = unlink(folder, RefPixmapPath(fig_name))
    /\ UNCHANGED <<fig_name, call, not_snapshot_vars>>

\* the test has looked at what the call returned and at the folder, and goes on
ResultChecked ==
    /\ call.called
    /\ call' = [called |-> FALSE]
    /\ UNCHANGED <<fig_name, folder, not_snapshot_vars>>

NextSnapshot == CheckWidgetSnapshot \/ ResultChecked \/ WriteOldResults \/ UnlinkRef

SpecSnapshot == InitSnapshot /\ [][NextSnapshot]_vars

\* ------------------------------------------------ pyqt_sandals: is_connected
MaxConnections == 2   \* connections test code makes between one signal and one slot

\* bound signals, by the class of their object and their name, and the slots (methods
\* decorated with pyqtSlot): those of test_connected and those of another application
Signals == {[cls |-> "MyObj", name |-> "sig_test"], [cls |-> "Editor", name |-> "sig_saved"]}
Slots == {"meth", "on_saved"}
\* the two texts PyQt builds are known to give the TypeError of a connect() that
\* Qt.UniqueConnection refuses (the two the assert of line 57 knows for the test's names)
ExcFormats == {"not unique", "failed between"}
TypeErrorText(signal, slot) ==
    IF exc_format = "not unique" THEN "connection is not unique"
    ELSE "connect() failed between " \o signal.cls \o "." \o signal.name \o "[] and "
             \o slot \o "()"
KnownTexts ==
    {"connection is not unique", "connect() failed between MyObj.sig_test[] and meth()"}

\* signal.connect(slot) and signal.connect(slot, Qt.UniqueConnection): Qt keeps one more
\* connection, unless it must be unique and there is one already (TypeError)
connect(conns, signal, slot, unique) ==
    IF unique /\ conns[<<signal, slot>>] > 0
    THEN [raised |-> TRUE, connections |-> conns]
    ELSE [raised |-> FALSE,
          connections |-> [conns EXCEPT ![<<signal, slot>>] = @ + 1]]
\* signal.disconnect(slot): Qt drops the connections of the signal to the slot
disconnect(conns, signal, slot) ==
    [conns EXCEPT ![<<signal, slot>>] = 0]
\* obj.receivers(signal)
RECURSIVE SumSlots(_, _, _)
SumSlots(conns, signal, slots) ==
    IF slots = {} THEN 0
    ELSE LET slot == CHOOSE x \in slots : TRUE
         IN conns[<<signal, slot>>] + SumSlots(conns, signal, slots \ {slot})
receivers(conns, signal) ==
    SumSlots(conns, signal, Slots)

\* is_connected(signal, slot), lines 46-62: what it returns or raises, and the
\* connections it leaves
is_connected(conns, signal, slot) ==
    LET c == connect(conns, signal, slot, TRUE)
    IN IF c.raised
       THEN [ret |-> IF TypeErrorText(signal, slot) \in KnownTexts THEN "True"
                     ELSE "AssertionError",
             connections |-> c.connections]
       ELSE [ret |-> "False", connections |-> disconnect(c.connections, signal, slot)]
\* is_connected_obj(obj, signal, slot), lines 65-77
is_connected_obj(conns, signal, slot) ==
    LET num_recv == receivers(conns, signal)
        r == is_connected(conns, signal, slot)
    IN IF receivers(r.connections, signal) = num_recv THEN r
       ELSE [r EXCEPT !.ret = "AssertionError"]

InitConnections ==
    /\ connections = [c \in Signals \X Slots |-> 0]
    /\ exc_format \in ExcFormats
    /\ probe = [called |-> FALSE]
    /\ NoCaller
    /\ NoThreads
    /\ NoSnapshot
    /\ NoChDir
    /\ NoReflow
    /\ NoHelm

\* obj.sig_test.connect(obs.meth), with or without Qt.UniqueConnection
Connect ==
    /\ ~probe.called
    /\ \E signal \in Signals, slot \in Slots, unique \in BOOLEAN :
          /\ connections[<<signal, slot>>] < MaxConnections
          /\ connections' = connect(connections, signal, slot, unique).connections
    /\ UNCHANGED <<exc_format, probe, not_conn_vars>>

\* obj.sig_test.disconnect(obs.meth) of a connected slot
Disconnect ==
    /\ ~probe.called
    /\ \E signal \in Signals, slot \in Slots :
          /\ connections[<<signal, slot>>] > 0
          /\ connections' = disconnect(connections, signal, slot)
    /\ UNCHANGED <<exc_format, probe, not_conn_vars>>

\* is_connected(signal, slot)
IsConnected ==
    /\ ~probe.called
    /\ \E signal \in Signals, slot \in Slots :
          \E r \in {is_connected(connections, signal, slot)} :
              /\ connections' = r.connections
              /\ probe' = [called |-> TRUE, obj |-> FALSE, signal |-> signal, slot |-> slot,
                           before |-> connections, ret |-> r.ret]
    /\ UNCHANGED <<exc_format, not_conn_vars>>

\* is_connected_obj(obj, signal, slot)
IsConnectedObj ==
    /\ ~probe.called
    /\ \E signal \in Signals, slot \in Slots :
          \E r \in {is_connected_obj(connections, signal, slot)} :
              /\ connections' = r.connections
              /\ probe' = [called |-> TRUE, obj |-> TRUE, signal |-> signal, slot |-> slot,
                           before |-> connections, ret |-> r.ret]
    /\ UNCHANGED <<exc_format, not_conn_vars>>

\* the caller has looked at the answer and goes on
ProbeChecked ==
    /\ probe.called
    /\ probe' = [called |-> FALSE]
    /\ UNCHANGED <<connections, exc_format, not_conn_vars>>

NextConnections == Connect \/ Disconnect \/ IsConnected \/ IsConnectedObj \/ ProbeChecked

SpecConnections == InitConnections /\ [][NextConnections]_vars

\* ------------------------------------------------------ tempchdir: TempChDir
\* the directories of the process, and the path arguments: a directory or "."
Dirs == {"/home/user", "/home/user/work", "/tmp", "/var/data"}
Paths == Dirs \cup {"."}
NoDir == ""   \* None

\* Path(path).expanduser().absolute() in a process whose cwd is dir
absolute(path, dir) ==
    IF path = "." THEN dir ELSE path
\* TempChDir(path), lines 14-20, in a process whose cwd is dir
TempChDir(path, dir) ==
    [old_dir |-> IF dir # absolute(path, dir) THEN dir ELSE NoDir,
     new_dir |-> absolute(path, dir)]
\* __enter__, lines 22-26, and __exit__, lines 28-32: the cwd they leave
enter(self, dir) ==
    IF self.old_dir # NoDir THEN self.new_dir ELSE dir
exit(self, dir) ==
    IF self.old_dir # NoDir THEN self.old_dir ELSE dir

\* a process in some directory; the module is the file as it is (it binds neither os
\* nor Path) or the class in a module that imports them
InitChDir ==
    /\ cwd \in Dirs
    /\ names_bound \in BOOLEAN
    /\ block = [at |-> "none"]
    /\ NoCaller
    /\ NoThreads
    /\ NoSnapshot
    /\ NoConnections
    /\ NoReflow
    /\ NoHelm

\* with TempChDir(path): the instance is made and entered; without the name Path (in the
\* annotation of line 14 and in line 16) that raises NameError
With ==
    /\ block.at \in {"none"}
    /\ \E path \in Paths :
          IF names_bound
          THEN \E self \in {TempChDir(path, cwd)} :
                  /\ cwd' = enter(self, cwd)
                  /\ block' = [at |-> "inside", path |-> path, self |-> self,
                               entry_cwd |-> cwd, body_chdir |-> FALSE]
          ELSE /\ cwd' = cwd
               /\ block' = [at |-> "NameError", path |-> path, entry_cwd |-> cwd]
    /\ UNCHANGED <<names_bound, not_chdir_vars>>

\* the body of the block changes the cwd itself
BodyChDir ==
    /\ block.at = "inside"
    /\ ~block.body_chdir
    /\ \E dir \in Dirs \ {cwd} :
          cwd' = dir
    /\ block' = [block EXCEPT !.body_chdir = TRUE]
    /\ UNCHANGED <<names_bound, not_chdir_vars>>

\* the block ends normally or by an exception: __exit__ runs, and lets the exception on
Exit ==
    /\ block.at = "inside"
    /\ cwd' = exit(block.self, cwd)
    /\ \E how \in {"exited", "exited by exception"} :
          block' = [block EXCEPT !.at = how]
    /\ UNCHANGED <<names_bound, not_chdir_vars>>

\* the program goes on after the block
AfterBlock ==
    /\ block.at \in {"exited", "exited by exception", "NameError"}
    /\ block' = [at |-> "none"]
    /\ UNCHANGED <<cwd, names_bound, not_chdir_vars>>

NextChDir == With \/ BodyChDir \/ Exit \/ AfterBlock

SpecChDir == InitChDir /\ [][NextChDir]_vars

\* --------------------------------------------------------------- reflow
MaxLines == 3   \* the most lines of a text

\* ' ' * n, s[n:] and s[:n]
Spaces(n) == [k \in 1..n |-> " "]
From(s, n) == IF n >= Len(s) THEN <<>> ELSE SubSeq(s, n + 1, Len(s))
UpTo(s, n) == IF n >= Len(s) THEN s ELSE SubSeq(s, 1, n)
\* str.lstrip, str.rstrip, str.strip and str.startswith
RECURSIVE lstrip(_)
lstrip(s) == IF s # <<>> /\ Head(s) \in {" ", "\n"} THEN lstrip(Tail(s)) ELSE s
RECURSIVE rstrip(_)
rstrip(s) ==
    IF s # <<>> /\ s[Len(s)] \in {" ", "\n"} THEN rstrip(SubSeq(s, 1, Len(s) - 1)) ELSE s
strip(s) == rstrip(lstrip(s))
startswith(s, prefix) == Len(s) >= Len(prefix) /\ SubSeq(s, 1, Len(prefix)) = prefix
\* sep.join(strs)
RECURSIVE join(_, _)
join(sep, strs) ==
    IF strs = <<>> THEN <<>>
    ELSE IF Len(strs) = 1 THEN strs[1]
    ELSE strs[1] \o sep \o join(sep, Tail(strs))
\* str.split('\n'), with cur the part being read, and str.splitlines(): no last empty part
RECURSIVE split(_, _)
split(s, cur) ==
    IF s = <<>> THEN <<cur>>
    ELSE IF Head(s) = "\n" THEN <<cur>> \o split(Tail(s), <<>>)
    ELSE split(Tail(s), Append(cur, Head(s)))
splitlines(s) ==
    LET parts == split(s, <<>>)
    IN IF parts[Len(parts)] = <<>> THEN SubSeq(parts, 1, Len(parts) - 1) ELSE parts

\* lines 6-11
is_list_item(line) == startswith(lstrip(line), <<"-", " ">>)
is_blank_line(line) == strip(line) = <<>>
\* len(first_line) - len(first_line.lstrip())
IndentLen(line) == Len(line) - Len(lstrip(line))

\* textwrap.dedent of the lines of a group (none of them blank): the margin they share
\* is removed
RECURSIVE Margin(_)
Margin(strs) ==
    IF Len(strs) = 1 THEN IndentLen(strs[1])
    ELSE LET m == Margin(Tail(strs))
         IN IF IndentLen(strs[1]) < m THEN IndentLen(strs[1]) ELSE m
dedent(strs) == [k \in DOMAIN strs |-> From(strs[k], Margin(strs))]

\* TextWrapper._split_chunks: the runs of whitespace and of other characters, with every
\* whitespace character made a space
RECURSIVE split_chunks(_, _)
split_chunks(s, cur) ==
    IF s = <<>> THEN (IF cur = <<>> THEN <<>> ELSE <<cur>>)
    ELSE LET c == IF Head(s) = "\n" THEN " " ELSE Head(s)
         IN IF cur = <<>> \/ ((cur[1] = " ") <=> (c = " "))
            THEN split_chunks(Tail(s), Append(cur, c))
            ELSE <<cur>> \o split_chunks(Tail(s), <<c>>)
\* chunk.strip() == ''
IsWhitespace(chunk) == strip(chunk) = <<>>
\* TextWrapper._wrap_chunks, the inner loop: chunks are taken while they fit
RECURSIVE Fill(_, _, _, _)
Fill(chunks, avail, cur_line, cur_len) ==
    IF chunks # <<>> /\ cur_len + Len(Head(chunks)) <= avail
    THEN Fill(Tail(chunks), avail, Append(cur_line, Head(chunks)), cur_len + Len(Head(chunks)))
    ELSE [cur_line |-> cur_line, cur_len |-> cur_len, chunks |-> chunks]
\* TextWrapper._handle_long_word with break_long_words: as much of the chunk as there
\* is room for is taken, one character when there is no room at all
handle_long_word(f, avail) ==
    LET space_left == IF avail < 1 THEN 1 ELSE avail - f.cur_len
    IN [cur_line |-> Append(f.cur_line, UpTo(Head(f.chunks), space_left)),
        cur_len |-> f.cur_len + Len(UpTo(Head(f.chunks), space_left)),
        chunks |-> <<From(Head(f.chunks), space_left)>> \o Tail(f.chunks)]
\* TextWrapper._wrap_chunks, the outer loop 'while chunks', with out the lines made so
\* far; an iteration that changes neither chunks nor out repeats for ever
RECURSIVE wrap_chunks(_, _, _, _, _)
wrap_chunks(chunks, width_, initial_indent, subsequent_indent, out) ==
    IF chunks = <<>> THEN [raised |-> "none", lines |-> out]
    ELSE
        LET indent == IF out # <<>> THEN subsequent_indent ELSE initial_indent
            avail == width_ - Len(indent)
            chunks1 == IF IsWhitespace(Head(chunks)) /\ out # <<>> THEN Tail(chunks) ELSE chunks
            f == Fill(chunks1, avail, <<>>, 0)
            g == IF f.chunks # <<>> /\ Len(Head(f.chunks)) > avail
                 THEN handle_long_word(f, avail) ELSE f
            cur_line == IF g.cur_line # <<>> /\ IsWhitespace(g.cur_line[Len(g.cur_line)])
                        THEN SubSeq(g.cur_line, 1, Len(g.cur_line) - 1)
                        ELSE g.cur_line
            out1 == IF cur_line # <<>> THEN Append(out, indent \o join(<<>>, cur_line)) ELSE out
        IN IF g.chunks = chunks /\ out1 = out
           THEN [raised |-> "never returns", lines |-> out]
           ELSE wrap_chunks(g.chunks, width_, initial_indent, subsequent_indent, out1)
\* textwrap.wrap(text, width, initial_indent=..., subsequent_indent=...)
wrap(blob, width_, initial_indent, subsequent_indent) ==
    IF width_ <= 0 THEN [raised |-> "ValueError", lines |-> <<>>]
    ELSE wrap_chunks(split_chunks(blob, <<>>), width_, initial_indent, subsequent_indent, <<>>)

\* reflow_list_item, lines 14-31: the lines it adds to into_group
reflow_list_item(group_, width_, list_prefix) ==
    LET first_line == group_[1]
        indent_len == IndentLen(first_line)
        indent == Spaces(indent_len)
        prefix_len == indent_len + Len(list_prefix)
        stripped == [k \in DOMAIN group_ |-> From(group_[k], prefix_len)]
        subsequent_indent == indent \o Spaces(Len(list_prefix))
        blob == join(<<"\n">>, stripped)
    IN wrap(blob, width_, indent \o list_prefix, subsequent_indent)
\* reflow_paragraph, lines 34-41
reflow_paragraph(group_, width_) ==
    LET first_line == group_[1]
        indent == Spaces(IndentLen(first_line))
        blob == join(<<"\n">>, dedent(group_))
    IN wrap(blob, width_, indent, indent)

\* 'if group: reflow_...(group, reflowed_lines, width)' for the group of a state
Rewrap(state_, group_, width_) ==
    IF group_ = <<>> THEN [raised |-> "none", lines |-> <<>>]
    ELSE IF state_ = "paragraph" THEN reflow_paragraph(group_, width_)
    ELSE reflow_list_item(group_, width_, <<"-", " ">>)

\* lines 50-93: the body of the for loop for one line
LoopBody_Line(state_, group_, out, line, width_) ==
    IF state_ = "new" THEN
        IF is_blank_line(line) THEN
            [state |-> state_, group |-> group_, reflowed_lines |-> Append(out, <<>>),
             raised |-> "none"]
        ELSE IF is_list_item(line) THEN
            [state |-> "list_item", group |-> Append(group_, line), reflowed_lines |-> out,
             raised |-> "none"]
        ELSE
            [state |-> "paragraph", group |-> Append(group_, line), reflowed_lines |-> out,
             raised |-> "none"]
    ELSE IF state_ = "paragraph" THEN
        IF is_list_item(line) \/ is_blank_line(line) THEN
            LET r == Rewrap(state_, group_, width_)
            IN IF is_blank_line(line) THEN
                   [state |-> state_, group |-> <<>>,
                    reflowed_lines |-> Append(out \o r.lines, <<>>), raised |-> r.raised]
               ELSE
                   [state |-> "list_item", group |-> <<line>>,
                    reflowed_lines |-> out \o r.lines, raised |-> r.raised]
        ELSE
            [state |-> state_, group |-> Append(group_, line), reflowed_lines |-> out,
             raised |-> "none"]
    ELSE IF state_ = "list_item" THEN
        IF is_list_item(line) \/ is_blank_line(line) THEN
            LET r == Rewrap(state_, group_, width_)
            IN IF is_blank_line(line) THEN
                   [state |-> "paragraph", group |-> <<>>,
                    reflowed_lines |-> Append(out \o r.lines, <<>>), raised |-> r.raised]
               ELSE
                   [state |-> state_, group |-> <<line>>,
                    reflowed_lines |-> out \o r.lines, raised |-> r.raised]
        ELSE
            [state |-> state_, group |-> group_, reflowed_lines |-> out, raised |-> "none"]
    ELSE
        [state |-> state_, group |-> group_, reflowed_lines |-> out, raised |-> "RuntimeError"]

\* lines 97-106: after the loop
AfterLoop(state_, group_, out, width_) ==
    IF state_ \in {"paragraph", "list_item"} THEN
        LET r == Rewrap(state_, group_, width_)
        IN IF r.raised # "none" THEN [kind |-> r.raised]
           ELSE [kind |-> "str", str |-> join(<<"\n">>, out \o r.lines)]
    ELSE [kind |-> "RuntimeError"]

\* the lines the texts are made of: blank lines, paragraph lines and list items, with
\* and without indentation, words longer and shorter than the narrow widths
InputLines ==
    {<<>>,
     <<" ">>,
     <<"a", "b">>,
     <<" ", " ", "c", "d", "e", " ", "f">>,
     <<"-", " ", "g">>,
     <<" ", " ", "-", " ", "h", "i", " ", "j">>,
     <<"-", " ">>}
Texts ==
    {join(<<"\n">>, strs) : strs \in UNION {[1..n -> InputLines] : n \in 0..MaxLines}}
Widths == {0, 1, 4, 80}

\* reflow(text, width) is called: line 45, lines = lines.splitlines(), and lines 46-48
InitReflow ==
    /\ text \in Texts
    /\ width \in Widths
    /\ lines = splitlines(text)
    /\ line_no = 1
    /\ state = "new"
    /\ group = <<>>
    /\ reflowed_lines = <<>>
    /\ result = [kind |-> "running"]
    /\ NoCaller
    /\ NoThreads
    /\ NoSnapshot
    /\ NoConnections
    /\ NoChDir
    /\ NoHelm

\* one iteration of 'for line in lines'
ReflowLine ==
    /\ result.kind = "running"
    /\ line_no <= Len(lines)
    /\ \E r \in {LoopBody_Line(state, group, reflowed_lines, lines[line_no], width)} :
          /\ state' = r.state
          /\ group' = r.group
          /\ reflowed_lines' = r.reflowed_lines
          /\ result' = IF r.raised = "none" THEN result ELSE [kind |-> r.raised]
    /\ line_no' = line_no + 1
    /\ UNCHANGED <<text, width, lines, not_reflow_vars>>

\* the loop is over: the last group is rewrapped and the lines are joined
ReflowReturn ==
    /\ result.kind = "running"
    /\ line_no > Len(lines)
    /\ result' = AfterLoop(state, group, reflowed_lines, width)
    /\ UNCHANGED <<text, width, lines, line_no, state, group, reflowed_lines, not_reflow_vars>>

NextReflow == ReflowLine \/ ReflowReturn

SpecReflow == InitReflow /\ [][NextReflow]_vars

\* ------------------------------------------------- helm: install_hashed_chart
\* _get_install_cmd, lines 36-71; a list that is None or empty adds nothing
RECURSIVE Flagged(_, _)
Flagged(flag, strs) ==
    IF strs = <<>> THEN <<>> ELSE <<flag, Head(strs)>> \o Flagged(flag, Tail(strs))
get_install_cmd(release_name, namespace, chart_dir_path, with_secrets, values_files, sets, xtra_helm_args, dry_run) ==
    LET run_cmd == <<"helm", "upgrade", "--install", "--namespace", namespace, release_name,
                     chart_dir_path>>
        run_cmd1 == IF dry_run THEN run_cmd \o <<"--dry-run", "--output", "json">> ELSE run_cmd
        run_cmd2 == IF with_secrets THEN <<Head(run_cmd1), "secrets">> \o Tail(run_cmd1)
                    ELSE run_cmd1
    IN run_cmd2 \o Flagged("-f", values_files) \o Flagged("--set", sets) \o xtra_helm_args

\* format_hash, lines 118-130, on strings as sequences of characters
RECURSIVE Segments(_, _)
Segments(hash_str, hash_seg_len) ==
    IF hash_str = <<>> THEN <<>>
    ELSE <<UpTo(hash_str, hash_seg_len)>> \o Segments(From(hash_str, hash_seg_len), hash_seg_len)
format_hash(hash_str, hash_len, hash_seg_len, hash_sep) ==
    IF hash_seg_len >= hash_len THEN UpTo(hash_str, hash_len)
    ELSE join(hash_sep, Segments(UpTo(hash_str, hash_len), hash_seg_len))

\* the arguments of the calls: None and '' both stand for 'not given' (line 162,
\* 'if not release_name'), None and [] for no values files and no sets
NotGiven == ""
ServiceNames == {"svc"}
ReleaseNames == {NotGiven, "svc", "rel"}
ChartDirPaths == {NotGiven, "deploy/app"}
ValuesFiles == {<<>>, <<"values.yaml">>, <<"values.yaml", "secrets.yaml">>}
Sets == {<<>>, <<"a=b">>}
XtraHelmArgs == {<<>>, <<"--wait">>}
HelmArgs ==
    [service_name : ServiceNames, build_tag : {"1.2"}, namespace : {"prod"},
     release_name : ReleaseNames, with_secrets : {"None", "True", "False"},
     values_files : ValuesFiles, sets : Sets, xtra_helm_args : XtraHelmArgs,
     chart_dir_path : ChartDirPaths, chart_prefix : {""}]
\* the hashes of the merged values of a dry run, and the arguments that format them
Hashes == {<<"0", "a", "1", "b", "2", "c">>, <<"f", "f", "9", "9", "e", "e">>}
hash_len == 4       \* shortened from 12
hash_seg_len == 2   \* shortened from 4
hash_sep == <<".">>
\* Path(chart_dir_path).name and the temporary directory
PathName(path) == IF path = "deploy/app" THEN "app" ELSE "svc"
tmpdirname == "/tmp/chart-x"
\* a chart folder: the version and the appVersion of its Chart.yaml
ChartYaml == [version |-> "0.1.0", appVersion |-> <<"0">>]
NoChart == [version |-> "", appVersion |-> <<>>]

\* an installation is asked for; the secrets plugin is installed or not
InitHelm ==
    /\ \E a \in HelmArgs, has_secrets \in BOOLEAN :
          helm = [pc |-> "called", args |-> a, has_secrets |-> has_secrets,
                  chart_dir_path |-> a.chart_dir_path, release_name |-> a.release_name,
                  with_secrets |-> a.with_secrets]
    /\ commands = <<>>
    /\ charts = [path \in {"chart/svc", "deploy/app", "/tmp/chart-x/svc", "/tmp/chart-x/app"} |->
                     IF path \in {"chart/svc", "deploy/app"} THEN ChartYaml ELSE NoChart]
    /\ NoCaller
    /\ NoThreads
    /\ NoSnapshot
    /\ NoConnections
    /\ NoChDir
    /\ NoReflow

\* lines 159-168: the defaults of chart_dir_path, release_name and with_secrets, the
\* last by running 'helm secrets'
Defaults ==
    /\ helm.pc = "called"
    /\ helm' = [helm EXCEPT
                    !.pc = "defaults",
                    !.chart_dir_path = IF @ = NotGiven
                                       THEN "chart/" \o helm.args.chart_prefix \o helm.args.service_name
                                       ELSE @,
                    !.release_name = IF @ = NotGiven THEN helm.args.service_name ELSE @,
                    !.with_secrets = IF @ = "None"
                                     THEN (IF helm.has_secrets THEN "True" ELSE "False")
                                     ELSE @]
    /\ commands' = IF helm.with_secrets = "None"
                   THEN Append(commands, <<"helm secrets 2>/dev/null">>) ELSE commands
    /\ UNCHANGED <<charts, not_helm_vars>>

\* lines 170-173 and 86-114: the dry run, made with service_name for release name; helm
\* prints the merged values, their hash is computed and formatted, or helm fails and
\* get_proc_out raises CalledProcessError
DryRun ==
    /\ helm.pc = "defaults"
    /\ commands' = Append(commands,
                          get_install_cmd(helm.args.service_name, helm.args.namespace,
                                          helm.chart_dir_path, helm.with_secrets = "True",
                                          helm.args.values_files, helm.args.sets,
                                          helm.args.xtra_helm_args, TRUE))
    /\ \/ \E values_hash \in Hashes :
             helm' = [pc |-> "hashed", values_hash |-> values_hash,
                      install_tag |-> format_hash(values_hash, hash_len, hash_seg_len, hash_sep)]
                     @@ helm
       \/ helm' = [helm EXCEPT !.pc = "CalledProcessError"]
    /\ UNCHANGED <<charts, not_helm_vars>>

\* lines 179-187: the chart folder is copied into a temporary directory and the copy's
\* Chart.yaml gets version and appVersion
CopyChart ==
    /\ helm.pc = "hashed"
    /\ \E tmp_chart_path \in {tmpdirname \o "/" \o PathName(helm.chart_dir_path)} :
          /\ charts' = [charts EXCEPT ![tmp_chart_path] =
                            [version |-> helm.args.build_tag, appVersion |-> helm.install_tag]]
          /\ helm' = [pc |-> "copied", tmp_chart_path |-> tmp_chart_path] @@ helm
    /\ UNCHANGED <<commands, not_helm_vars>>

\* lines 189-195: the installation from the copy; the temporary directory is removed
\* and the exit code of helm is returned
Install ==
    /\ helm.pc = "copied"
    /\ commands' = Append(commands,
                          get_install_cmd(helm.release_name, helm.args.namespace,
                                          helm.tmp_chart_path, helm.with_secrets = "True",
                                          helm.args.values_files, helm.args.sets,
                                          helm.args.xtra_helm_args, FALSE))
    /\ \E exit_code \in {0, 1} :
          helm' = [pc |-> "returned", exit_code |-> exit_code] @@ helm
    /\ charts' = [charts EXCEPT ![helm.tmp_chart_path] = NoChart]
    /\ UNCHANGED not_helm_vars

NextHelm == Defaults \/ DryRun \/ CopyChart \/ Install

SpecHelm == InitHelm /\ [][NextHelm]_vars

\* ---------------------------------------------------------------- claims
\* vocabulary of the claims, stated on the caller's two images
OverlapCoords == Coords(IF image.w < ref_image.w THEN image.w ELSE ref_image.w,
                        IF image.h < ref_image.h THEN image.h ELSE ref_image.h)
DiffersAt(p) == image.pix[p] # ref_image.pix[p]
SomeOverlapPixelDiffers == \E p \in OverlapCoords : DiffersAt(p)
SizesEqual == image.w = ref_image.w /\ image.h = ref_image.h
Returned == pc = "returned"

\* C1: get_diff(I, I) returns None for every image I and every tolerance configuration.
C1_Identity ==
    (Returned /\ image = ref_image) => ret = "None"

\* C1 for images that have pixels (the case the failure of C1 leaves out).
C1_IdentityWithPixels ==
    (Returned /\ image = ref_image /\ image # EmptyImage) => ret = "None"

\* C2: two images of different width or height whose overlapping pixels are all equal
\* give a diff image under every tolerance configuration.
C2_SizeMismatchForcing ==
    (Returned /\ ~SizesEqual /\ ~SomeOverlapPixelDiffers) => ret = "diff_image"

\* C2 for two images that both have pixels.
C2_SizeMismatchForcingWithPixels ==
    (Returned /\ ~SizesEqual /\ ~SomeOverlapPixelDiffers /\ OverlapCoords # {})
        => ret = "diff_image"

RmsTolValues == {ToFloat(x) : x \in RmsTolArgs \ {None}}
NumTolValues == {ToFloat(x) : x \in NumTolArgs \ {None}}
MaxPixTolValues == MaxPixTolArgs \ {None}

\* C4: if get_diff returned None, it returns None as well with any one configured
\* threshold increased and the other two unchanged.
C4_ToleranceMonotonic ==
    (Returned /\ ret = "None") =>
        /\ \A v \in RmsTolValues :
              (differ.rms_tol_perc # None /\ v > differ.rms_tol_perc) =>
                  get_diff([differ EXCEPT !.rms_tol_perc = v], image, ref_image).ret = "None"
        /\ \A v \in NumTolValues :
              (differ.num_tol_perc # None /\ v > differ.num_tol_perc) =>
                  get_diff([differ EXCEPT !.num_tol_perc = v], image, ref_image).ret = "None"
        /\ \A v \in MaxPixTolValues :
              (differ.max_pix_diff_tol # None /\ v > differ.max_pix_diff_tol) =>
                  get_diff([differ EXCEPT !.max_pix_diff_tol = v], image, ref_image).ret = "None"

\* C4 witness: a difference accepted exactly at a threshold that can still be raised.
C4_Witness ==
    /\ Returned /\ ret = "None" /\ SomeOverlapPixelDiffers
    /\ differ.max_pix_diff_tol = differ.max_pix_diff
    /\ differ.max_pix_diff_tol < MaxPix
    /\ differ.num_tol_perc # None /\ differ.num_tol_perc < ToFloat(MaxPerc)
    /\ differ.rms_tol_perc # None /\ differ.rms_tol_perc < ToFloat(MaxPerc)

\* C5: get_diff(A, B) returns a diff image exactly when get_diff(B, A) does.
C5_SymmetricDetection ==
    Returned =>
        (ret = "diff_image" <=> get_diff(differ, ref_image, image).ret = "diff_image")

\* C5 witness: images of different sizes with a differing overlap pixel, accepted
\* in neither order.
C5_Witness ==
    /\ Returned /\ ret = "diff_image" /\ ~SizesEqual /\ SomeOverlapPixelDiffers
    /\ get_diff(differ, ref_image, image).ret = "diff_image"

\* C5 witness of the other side: a difference within the tolerances in both orders.
C5_WitnessAccepted ==
    /\ Returned /\ ret = "None" /\ SomeOverlapPixelDiffers
    /\ get_diff(differ, ref_image, image).ret = "None"

\* C6: get_diff never raises; with an empty overlap it sets num_diffs_perc to 0 and
\* returns a diff image when the sizes differ.
C6_NeverRaises ==
    Returned =>
        /\ ret # "ZeroDivisionError"
        /\ OverlapCoords = {} =>
              /\ differ.num_diffs_perc = 0
              /\ ~SizesEqual => ret = "diff_image"

\* C6, the case the code does handle: with a non-empty overlap get_diff returns.
C6_ReturnsWithOverlap ==
    (Returned /\ OverlapCoords # {}) => ret \in {"None", "diff_image"}

\* C7: in every state some tolerance is set; a differ constructed without arguments
\* has rms_tol_perc 0.0 and the other two None; otherwise the tolerances are the
\* arguments given (the two percentages as floats). get_diff and report keep them.
C7_ToleranceConfigured ==
    LET a == ctor_args
        none_given == a.rms_tol_perc = None /\ a.num_tol_perc = None /\ a.max_pix_diff_tol = None
    IN /\ differ.rms_tol_perc # None \/ differ.num_tol_perc # None \/ differ.max_pix_diff_tol # None
       /\ none_given =>
              /\ differ.rms_tol_perc = 0
              /\ differ.num_tol_perc = None
              /\ differ.max_pix_diff_tol = None
       /\ ~none_given =>
              /\ differ.rms_tol_perc = IF a.rms_tol_perc = None THEN None ELSE a.rms_tol_perc * FP
              /\ differ.num_tol_perc = IF a.num_tol_perc = None THEN None ELSE a.num_tol_perc * FP
              /\ differ.max_pix_diff_tol = a.max_pix_diff_tol

\* C7 witness: a differ constructed without arguments, after get_diff and report.
C7_Witness ==
    /\ Returned /\ report_out # "none"
    /\ ctor_args = [rms_tol_perc |-> None, num_tol_perc |-> None, max_pix_diff_tol |-> None]
    /\ differ.rms_tol_perc = 0

\* whether some tolerance of the differ is 0
SomeToleranceZero ==
    differ.rms_tol_perc = 0 \/ differ.num_tol_perc = 0 \/ differ.max_pix_diff_tol = 0

\* C8: with any one tolerance 0, get_diff returns None only for two images of the same
\* size with all pixels equal, and a diff image otherwise.
C8_ZeroToleranceStrict ==
    (Returned /\ SomeToleranceZero) =>
        /\ ret = "None" => (SizesEqual /\ ~SomeOverlapPixelDiffers)
        /\ ~(SizesEqual /\ ~SomeOverlapPixelDiffers) => ret = "diff_image"

\* C8 for two images that both have pixels.
C8_ZeroToleranceStrictWithPixels ==
    (Returned /\ SomeToleranceZero /\ OverlapCoords # {}) =>
        /\ ret = "None" => (SizesEqual /\ ~SomeOverlapPixelDiffers)
        /\ ~(SizesEqual /\ ~SomeOverlapPixelDiffers) => ret = "diff_image"

\* the outcome of get_diff on the caller's images by a differ constructed with a
RetWith(a) == get_diff(ImgDiffer(a), image, ref_image).ret

C10_DifferentSizesGiveDiff ==
    (Returned /\ ~SizesEqual) => ret = "diff_image"

\* C10: two images of different sizes, both with pixels, give a diff image whatever
\* the tolerances, also when overlapping pixels differ within the tolerances.
C10_DifferentSizesWithPixelsGiveDiff ==
    (Returned /\ ~SizesEqual /\ OverlapCoords # {}) => ret = "diff_image"

\* the overlap coordinates whose two pixels differ in at least one channel
DifferingCoords == {p \in OverlapCoords : DiffersAt(p)}
NumDiffering == Cardinality(DifferingCoords)

C11_WitnessHalf ==
    /\ Returned /\ SizesEqual
    /\ Cardinality(OverlapCoords) = 2 /\ NumDiffering = 1
    /\ differ.num_diffs_perc = ToFloat(50)

\* the channel differences |actual - ref| of the differing overlap pixels
ChannelDiffs == {Abs(image.pix[p][k] - ref_image.pix[p][k]) : p \in DifferingCoords, k \in 1..4}
LargestIn(S) == CHOOSE m \in S : \A x \in S : x <= m
OutsideOverlap == (Coords(image.w, image.h) \cup Coords(ref_image.w, ref_image.h)) \ OverlapCoords

\* C12: after get_diff, max_pix_diff is the largest |actual - ref| over the differing
\* overlap pixels and their four channels, 0 when no overlap pixel differs; it is always
\* in 0..255 and the pixels outside the overlap never contribute.
C12_MaxPixDiff ==
    Returned =>
        /\ differ.max_pix_diff = (IF DifferingCoords = {} THEN 0 ELSE LargestIn(ChannelDiffs))
        /\ differ.max_pix_diff \in 0..MaxPix

\* C12 happens: the shared pixel differs by at most 106 in a channel while a pixel of the
\* actual image outside the overlap is white, 255 away from anything black
C12_Witness ==
    /\ Returned /\ DifferingCoords # {}
    /\ \E p \in OutsideOverlap : p \in DOMAIN image.pix /\ image.pix[p] = <<255, 255, 255, 255>>
    /\ \A p \in OverlapCoords : image.pix[p] = <<0, 0, 0, 0>>
    /\ differ.max_pix_diff = 106

\* the sum of the per-pixel RMS over a set of coordinates of the caller's images
RECURSIVE SumRmsOver(_)
SumRmsOver(S) ==
    IF S = {} THEN 0
    ELSE LET p == CHOOSE q \in S : TRUE
         IN PixelDiffRms(image.pix[p], ref_image.pix[p]) + SumRmsOver(S \ {p})
\* 100 times the mean of the per-pixel RMS over the differing overlap pixels only
MeanRmsPerc == IF DifferingCoords = {} THEN 0 ELSE (SumRmsOver(DifferingCoords) \div NumDiffering) * 100

\* C13: after get_diff, diff_rms_perc is 0 when no overlap pixel differs and otherwise
\* 100 times the mean, over the differing pixels only, of the per-pixel RMS; it then lies
\* in (0, 100].
C13_DiffRmsPerc ==
    Returned =>
        /\ differ.diff_rms_perc = MeanRmsPerc
        /\ DifferingCoords # {} => (differ.diff_rms_perc > 0 /\ differ.diff_rms_perc <= ToFloat(100))

\* C13 for two images that share at least one coordinate.
C13_DiffRmsPercWithOverlap ==
    (Returned /\ OverlapCoords # {}) =>
        /\ differ.diff_rms_perc = MeanRmsPerc
        /\ DifferingCoords # {} => (differ.diff_rms_perc > 0 /\ differ.diff_rms_perc <= ToFloat(100))

\* whether big is small with pixels added: small's pixels kept, big larger
Extends(big, small) ==
    /\ big.w >= small.w /\ big.h >= small.h /\ big # small
    /\ \A p \in Coords(small.w, small.h) : big.pix[p] = small.pix[p]

\* C13, second part: adding identical pixels to both images leaves diff_rms_perc as it was
C13_IdenticalPixelsAdded ==
    (Returned /\ SizesEqual /\ OverlapCoords # {}) =>
        \A image2 \in Images, ref_image2 \in RefImages :
            (/\ image2.w = ref_image2.w /\ image2.h = ref_image2.h
             /\ Extends(image2, image) /\ Extends(ref_image2, ref_image)
             /\ \A p \in Coords(image2.w, image2.h) \ OverlapCoords : image2.pix[p] = ref_image2.pix[p])
            => get_diff(differ, image2, ref_image2).self.diff_rms_perc = differ.diff_rms_perc

\* the second part happens: a differing pixel, and a pair of larger images to compare with
C13_IdenticalPixelsAddedWitness ==
    /\ Returned /\ SizesEqual /\ DifferingCoords # {}
    /\ \E image2 \in Images, ref_image2 \in RefImages :
            /\ image2.w = ref_image2.w /\ image2.h = ref_image2.h
            /\ Extends(image2, image) /\ Extends(ref_image2, ref_image)
            /\ \A p \in Coords(image2.w, image2.h) \ OverlapCoords : image2.pix[p] = ref_image2.pix[p]

\* C14: in the image get_diff builds, every overlap coordinate whose two pixels are equal
\* holds (0,0,0,0) and every overlap coordinate whose pixels differ holds the per-channel
\* absolute difference; a returned diff image of two images of the same size is therefore
\* non-zero at exactly the differing coordinates.
C14_DiffImageOverlap ==
    Returned =>
        /\ \A p \in OverlapCoords :
               diff_image.pix[p] =
                   IF DiffersAt(p) THEN [k \in 1..4 |-> Abs(image.pix[p][k] - ref_image.pix[p][k])]
                   ELSE <<0, 0, 0, 0>>
        /\ (ret = "diff_image" /\ SizesEqual) =>
               \A p \in Coords(diff_image.w, diff_image.h) :
                   (diff_image.pix[p] # <<0, 0, 0, 0>>) <=> DiffersAt(p)

\* C14 happens: a returned diff image of two images of the same size with one differing
\* pixel and one equal pixel
C14_Witness ==
    /\ Returned /\ ret = "diff_image" /\ SizesEqual
    /\ \E p \in OverlapCoords : DiffersAt(p) /\ diff_image.pix[p] # <<0, 0, 0, 0>>
    /\ \E p \in OverlapCoords : ~DiffersAt(p) /\ diff_image.pix[p] = <<0, 0, 0, 0>>

\* the larger of the two widths and of the two heights, and the coordinates they span
WiderWidth == IF image.w > ref_image.w THEN image.w ELSE ref_image.w
TallerHeight == IF image.h > ref_image.h THEN image.h ELSE ref_image.h
CanvasCoords == Coords(WiderWidth, TallerHeight)
\* the diff image after the iterations k, k+1, ... of the loop alone, on a fresh canvas
DiffImageFrom(k) ==
    Loop(image, ref_image, k,
         [diff_rms |-> 0, num_diffs |-> 0, max_pix_diff |-> 0, total_num_pixels |-> 0,
          diff_image |-> QImage(WiderWidth, TallerHeight)]).diff_image
WrittenCoords(img) == {p \in DOMAIN img.pix : img.pix[p] # PIXEL_UNWRITTEN}

\* C15: the diff image has the larger of the two widths and the larger of the two heights
\* and every coordinate of it is written exactly once: a coordinate valid only in the
\* actual image holds the actual pixel, one valid only in the reference holds the
\* reference pixel, one valid in neither (only when both width and height differ) is white.
C15_DiffImageCanvas ==
    Returned =>
        /\ diff_image.w = WiderWidth /\ diff_image.h = TallerHeight
        /\ DOMAIN diff_image.pix = CanvasCoords
        /\ \A p \in CanvasCoords \ OverlapCoords :
               diff_image.pix[p] =
                   IF p \in DOMAIN image.pix THEN image.pix[p]
                   ELSE IF p \in DOMAIN ref_image.pix THEN ref_image.pix[p]
                   ELSE <<255, 255, 255, 255>>
        /\ (\E p \in CanvasCoords : p \notin DOMAIN image.pix /\ p \notin DOMAIN ref_image.pix)
               => (image.w # ref_image.w /\ image.h # ref_image.h)
        \* the last n iterations write n distinct coordinates, the whole loop writes them all
        /\ \A k \in 0..Cardinality(CanvasCoords) :
               Cardinality(WrittenCoords(DiffImageFrom(k))) = Cardinality(CanvasCoords) - k
        /\ WrittenCoords(diff_image) = CanvasCoords

\* C15 happens: width and height both differ, so the diff image has a coordinate valid in
\* neither image, which is white, next to one taken from each image
C15_Witness ==
    /\ Returned /\ image.w # ref_image.w /\ image.h # ref_image.h
    /\ \E p \in CanvasCoords :
           /\ p \notin DOMAIN image.pix /\ p \notin DOMAIN ref_image.pix
           /\ diff_image.pix[p] = <<255, 255, 255, 255>>
    /\ \E p \in CanvasCoords \ OverlapCoords :
           p \in DOMAIN image.pix /\ diff_image.pix[p] = image.pix[p] /\ image.pix[p] # <<255, 255, 255, 255>>
    /\ \E p \in CanvasCoords \ OverlapCoords :
           p \in DOMAIN ref_image.pix /\ diff_image.pix[p] = ref_image.pix[p] /\ ref_image.pix[p] # <<255, 255, 255, 255>>

\* C16: report() after a get_diff returns a string, without raising, for every tolerance
\* configuration (a tolerance that is not configured is shown as None). Stated for the
\* calls of get_diff that returned, which leaves the division by zero of C6 aside.
C16_ReportReturnsString ==
    (Returned /\ ret # "ZeroDivisionError" /\ report_out # "none") => report_out = "str"

\* report() returns a string when rms_tol_perc and num_tol_perc are both configured
C16_ReportWithBothPercentTolerances ==
    (Returned /\ ret # "ZeroDivisionError" /\ report_out # "none"
       /\ differ.rms_tol_perc # None /\ differ.num_tol_perc # None) => report_out = "str"

\* what a freshly constructed differ with the same tolerances gives on the same two images
Fresh == get_diff(ImgDiffer(ctor_args), image, ref_image)
SameAsFresh ==
    \E fresh \in {Fresh} :
        /\ ret = fresh.ret
        /\ differ.max_pix_diff = fresh.self.max_pix_diff
        /\ differ.num_diffs_perc = fresh.self.num_diffs_perc
        /\ differ.diff_rms_perc = fresh.self.diff_rms_perc

\* C17: an ImgDiffer is reusable and history-independent: after any sequence of get_diff
\* calls, the outcome and the three result fields of the last call are those a freshly
\* constructed instance with the same tolerances gives on the same two images.
C17_HistoryIndependent ==
    Returned => SameAsFresh

\* C17 for a last call that returned.
C17_HistoryIndependentWhenReturns ==
    (Returned /\ ret # "ZeroDivisionError") => SameAsFresh

\* a second call that returned, on an image changed since the first call
C17_SecondCallWitness ==
    /\ Returned /\ ret # "ZeroDivisionError" /\ SameAsFresh
    /\ differ.num_diffs_perc # get_diff(ImgDiffer(ctor_args), ref_image, ref_image).self.num_diffs_perc
    /\ \E p \in OverlapCoords : image.pix[p] = <<0, 0, 0, 0>> /\ ref_image.pix[p] # <<0, 0, 0, 0>>

\* what the comparison of thread t gives when it runs alone on a fresh instance
Alone(t) == get_diff(ImgDiffer(thread_args), threads[t].image, threads[t].ref_image)
ResultFields(self) == <<self.max_pix_diff, self.num_diffs_perc, self.diff_rms_perc>>
AllDone == \A t \in Threads : threads[t].pc = "done"

\* C18: two get_diff invocations that interleave on one instance race on its result
\* fields; with one instance per concurrent comparison, every interleaving leaves each
\* comparison with the return value, result fields and diff image it has when run alone.
C18_OneInstancePerComparison ==
    \A t \in Threads :
        (~shared /\ threads[t].pc = "done") =>
            /\ threads[t].ret = Alone(t).ret
            /\ instances[t] = Alone(t).self
            /\ threads[t].st.diff_image = Alone(t).diff_image

\* C18, the race: both invocations on one instance have returned, the three result
\* fields of the instance are those of neither comparison run alone, and one invocation
\* returned a verdict it does not return alone
C18_RaceWitness ==
    /\ shared /\ AllDone
    /\ \A t \in Threads : ResultFields(instances[1]) # ResultFields(Alone(t).self)
    /\ \E t \in Threads : threads[t].ret # Alone(t).ret /\ Alone(t).ret # "ZeroDivisionError"

\* C18 happens without sharing too: two comparisons with different results both finished
C18_SeparateWitness ==
    /\ ~shared /\ AllDone
    /\ threads[1].ret = "None" /\ threads[2].ret = "diff_image"
    /\ instances[1].max_pix_diff = 106 /\ instances[2].max_pix_diff = 255

\* vocabulary of the claims on check_widget_snapshot, stated on the last call
Called == call.called /\ call.args.ref_path # "missing"
NamedRef == Str(fig_name) \o ".png"
ActualPath == Str(fig_name) \o "_actual.png"
DiffPath == Str(fig_name) \o "_diff.png"
Created == {path \in FileNames : ~exists(call.before, path) /\ exists(folder, path)}

\* C19: when the reference file <fig_name>.png does not exist in the reference folder
\* (ref_path itself, or its parent when ref_path is a file), check_widget_snapshot saves
\* the widget snapshot as that file and returns True; it creates no other file and never
\* calls the image differ.
C19_RefGenerated ==
    (Called /\ ~exists(call.before, NamedRef)) =>
        /\ call.out.ret = "True"
        /\ folder[NamedRef] = ImageFile(call.grabs[1])
        /\ Created = {NamedRef}
        /\ call.out.get_diff_calls = 0

\* C19 with the reference file the code computes, fig_name with its suffix replaced by .png
C19_RefGeneratedAtRefPixmapPath ==
    (Called /\ ~exists(call.before, RefPixmapPath(fig_name))) =>
        /\ call.out.ret = "True"
        /\ folder[RefPixmapPath(fig_name)] = ImageFile(call.grabs[1])
        /\ Created = {RefPixmapPath(fig_name)}
        /\ call.out.get_diff_calls = 0

\* C19 for a fig_name without a suffix
C19_RefGeneratedWithoutSuffix ==
    fig_name.suffix = "" => C19_RefGenerated

\* the reference of a fig_name without suffix is generated, from a folder and from a file
C19_GeneratedWitness ==
    /\ Called /\ fig_name.suffix = "" /\ call.args.ref_path = "file"
    /\ ~exists(call.before, NamedRef) /\ folder[NamedRef] = ImageFile(call.grabs[1])
    /\ exists(call.before, ActualPath) /\ exists(folder, ActualPath)

\* C20: with delete_old_results=True check_widget_snapshot removes any existing
\* <fig_name>_actual.png and <fig_name>_diff.png before doing anything else, whatever the
\* outcome of the call; with delete_old_results=False a call that passes leaves both
\* files, and every other file of the folder, exactly as they were.
C20_OldResults ==
    Called =>
        /\ call.args.delete_old_results =>
               \* the folder after lines 232-237: both gone, nothing else touched
               /\ ~exists(call.out.after_delete, ActualPath)
               /\ ~exists(call.out.after_delete, DiffPath)
               /\ \A path \in FileNames \ {ActualPath, DiffPath} :
                      call.out.after_delete[path] = call.before[path]
               \* what is there after the call was saved by the call, when it failed
               /\ \A path \in {ActualPath, DiffPath} :
                      folder[path] # NoFile => (call.out.ret = "False" /\ folder[path].kind = "png")
        /\ (~call.args.delete_old_results /\ call.out.ret = "True") =>
               /\ folder[ActualPath] = call.before[ActualPath]
               /\ folder[DiffPath] = call.before[DiffPath]
               /\ \A path \in FileNames : exists(call.before, path) => folder[path] = call.before[path]

\* C20 happens: old results were there and the call, which did not pass, removed them
C20_Witness ==
    /\ Called /\ call.args.delete_old_results
    /\ call.before[ActualPath] = TextFile /\ call.before[DiffPath] = TextFile
    /\ call.out.ret = "ValueError"
    /\ ~exists(folder, ActualPath) /\ ~exists(folder, DiffPath)

\* C20 happens: old results were there and a passing call with delete_old_results=False
\* compared the widget with the reference and left them
C20_KeptWitness ==
    /\ Called /\ ~call.args.delete_old_results /\ call.out.ret = "True"
    /\ call.out.get_diff_calls = 1
    /\ folder[ActualPath] = TextFile /\ folder[DiffPath] = TextFile

\* the reference image and the last grabbed image of the last call, and what the call's
\* differ gives on them
CallRefImage == Load(call.out.after_delete, RefPixmapPath(fig_name))
CallImage == call.grabs[call.out.num_grabs]
CallDiffer == DifferOutcome(call.args, CallImage, CallRefImage)
RefExisted == Called /\ exists(call.before, RefPixmapPath(fig_name))
Written == {path \in FileNames : folder[path] # call.out.after_delete[path]}

\* the two cases of C21 on the last call; the files of the folder that differ from what
\* they were after lines 232-237 are those the call wrote
ResultAndFiles ==
    /\ IF CallImage = CallRefImage \/ CallDiffer.ret = "None"
       THEN call.out.ret = "True" /\ Written = {}
       ELSE /\ call.out.ret = "False"
            /\ Written \subseteq {ActualPath, DiffPath}
            /\ folder[ActualPath] = ImageFile(CallImage)
            /\ folder[DiffPath] = ImageFile(CallDiffer.diff_image)
    /\ call.args.delete_old_results =>
           ((exists(folder, ActualPath) /\ exists(folder, DiffPath)) <=> call.out.ret = "False")

\* C21: when the reference file exists, check_widget_snapshot returns True and writes no
\* file if the grabbed image equals the reference or the differ's get_diff returns None,
\* and otherwise returns False after saving exactly two files, the grabbed snapshot as
\* <fig_name>_actual.png and the diff image as <fig_name>_diff.png; so with
\* delete_old_results=True the two files exist after a call iff the call returned False.
\* (A call that raises ValueError for its arguments, C22, is left aside.)
C21_ResultAndFiles ==
    (RefExisted /\ call.out.ret # "ValueError") =>
        ResultAndFiles

\* C21 for the calls in which neither get_diff nor report() raises
C21_ResultAndFilesWithoutRaise ==
    (RefExisted /\ call.out.ret \in {"True", "False"}) =>
        ResultAndFiles

\* C21 for a reference file that is an image, which leaves the division by zero of C6
\* aside: violated when a log is given and the default differ's report() raises
C21_ResultAndFilesImageRef ==
    (RefExisted /\ CallRefImage # EmptyImage /\ call.out.ret # "ValueError") => ResultAndFiles

\* both outcomes of C21 happen with the default differ
C21_Witness ==
    /\ RefExisted /\ call.args.img_differ = "None" /\ call.out.ret = "False"
    /\ folder[ActualPath] = ImageFile(CallImage)

\* the three cases of C22 on the last call
DifferChoice ==
    /\ (call.args.img_differ # "None" /\ call.args.img_diff_kwargs # NoKwargs) =>
           (call.out.ret = "ValueError" /\ call.out.get_diff_calls = 0)
    /\ (call.args.img_differ # "None" /\ call.args.img_diff_kwargs = NoKwargs) =>
           call.out.get_diff_calls = 1
    /\ call.args.img_differ = "None" =>
           /\ call.out.get_diff_calls = 1
           /\ call.out.ret \in {"True", "False"} =>
                  (call.out.ret = "True" <=>
                       get_diff(ImgDiffer(call.args.img_diff_kwargs), CallImage, CallRefImage).ret = "None")

\* C22: check_widget_snapshot raises ValueError whenever an img_differ is given together
\* with extra differ keyword arguments, without calling the differ; an img_differ given
\* alone has its get_diff called exactly once; when none is given a default ImgDiffer is
\* constructed from exactly the keyword arguments passed.
C22_DifferChoice ==
    Called => DifferChoice

\* C22 for the calls that get as far as the differ: the reference exists and the last
\* grabbed image differs from it
C22_DifferChoiceWhenReached ==
    (RefExisted /\ CallImage # CallRefImage) => DifferChoice

\* a call with an img_differ and keyword arguments that raises nothing: it generates the
\* reference and returns True
C22_NoValueErrorReached ==
    /\ Called /\ call.args.img_differ # "None" /\ call.args.img_diff_kwargs # NoKwargs
    /\ ~exists(call.before, RefPixmapPath(fig_name)) /\ call.out.ret = "True"

\* the time at which the n-th grab of a call is made, with a grab every try_interval
GrabTime(n) == (n - 1) * TryInterval
\* the grabs of the last call at which the retry loop can stop: the widget shows the
\* reference, or at least try_sec has elapsed
StopGrabs ==
    {n \in DOMAIN call.grabs :
        call.grabs[n] = CallRefImage \/ GrabTime(n) >= call.args.try_sec}
\* the widget comes to match the reference before try_sec elapses
MatchesInTime ==
    \E n \in DOMAIN call.grabs :
        call.grabs[n] = CallRefImage /\ GrabTime(n) < call.args.try_sec

\* the call's one grab with try_sec=None, and the grabs of its retry loop otherwise:
\* the loop stops at the first grab that can stop it
GrabsMade ==
    IF call.args.try_sec = None
    THEN call.out.num_grabs = 1
    ELSE /\ StopGrabs # {}
         /\ call.out.num_grabs \in StopGrabs
         /\ \A n \in StopGrabs : call.out.num_grabs <= n
\* the image of the last grab goes to the differ and is the one saved as actual image
LastGrabToDiffer ==
    /\ CallImage = call.grabs[call.out.num_grabs]
    /\ call.out.ret \in {"True", "False"} =>
           (call.out.ret = "True" <=>
                DifferOutcome(call.args, call.grabs[call.out.num_grabs], CallRefImage).ret = "None")
    /\ call.out.ret = "False" =>
           folder[ActualPath] = ImageFile(call.grabs[call.out.num_grabs])

C23_LateMatch ==
    /\ RefExisted /\ call.args.try_sec = TrySec /\ ~MatchesInTime
    /\ call.grabs[call.out.num_grabs] = CallRefImage /\ call.out.ret = "True"

C23_MatchWitness ==
    /\ RefExisted /\ call.args.try_sec = TrySec
    /\ call.out.num_grabs = 2 /\ call.out.ret = "True" /\ call.out.get_diff_calls = 0

\* the last call of is_connected or is_connected_obj answers True exactly when the
\* slot was connected to the signal, and leaves every connection as it was
ProbeAnswer ==
    /\ probe.ret = "True" <=> probe.before[<<probe.signal, probe.slot>>] > 0
    /\ probe.ret = "False" <=> probe.before[<<probe.signal, probe.slot>>] = 0
ProbeLeaves ==
    /\ connections = probe.before
    /\ \A signal \in Signals : receivers(connections, signal) = receivers(probe.before, signal)

\* C24: is_connected(signal, slot) returns True exactly when the slot is connected to the
\* signal and leaves the set of connections unchanged in both cases (the probe connection
\* is removed again), so repeated calls give the same answer and the signal's receiver
\* count is the same before and after each call.
C24_IsConnected ==
    probe.called => (ProbeAnswer /\ ProbeLeaves)

\* C24 for the signal and slot of test_connected, whose names the assert of line 57 knows
C24_IsConnectedTestNames ==
    (probe.called /\ probe.signal = [cls |-> "MyObj", name |-> "sig_test"]
                  /\ probe.slot = "meth") => (ProbeAnswer /\ ProbeLeaves)

\* C24 without the answer for a connected slot: the connections are left as they were,
\* an unconnected slot gives False, a connected one True or the AssertionError
C24_ConnectionsUnchanged ==
    probe.called =>
        /\ ProbeLeaves
        /\ probe.ret = "False" <=> probe.before[<<probe.signal, probe.slot>>] = 0
        /\ probe.ret \in {"True", "False", "AssertionError"}

\* is_connected of a connected slot of another class raises AssertionError
C24_AssertionErrorReached ==
    /\ probe.called /\ probe.ret = "AssertionError"
    /\ probe.before[<<probe.signal, probe.slot>>] > 0

\* the with block has been entered, or has ended
Inside == block.at = "inside"
Exited == block.at \in {"exited", "exited by exception"}
\* path is where the process was when the block was entered
PathIsCwd == absolute(block.path, block.entry_cwd) = block.entry_cwd
\* what C25 says of a block: in path while inside, back where it was entered afterwards,
\* no change at all for the current directory
ChangesAndRestores ==
    /\ (Inside /\ ~block.body_chdir) => cwd = absolute(block.path, block.entry_cwd)
    /\ Exited => cwd = block.entry_cwd
    /\ (PathIsCwd /\ Inside /\ ~block.body_chdir) => cwd = block.entry_cwd

\* C25: with TempChDir(path) changes the cwd to path on entry if it is not already there
\* and changes it back on exit: after the block exits, normally or by an exception, the
\* cwd is the cwd of the entry; for path '.' neither entry nor exit changes the cwd.
C25_TempChDir ==
    /\ block.at # "NameError"
    /\ block.at # "none" => ChangesAndRestores

\* C25 for the class in a module that binds os and Path
C25_TempChDirNamesBound ==
    (names_bound /\ block.at # "none") => ChangesAndRestores

\* C25 for the class in a module that binds os and Path, and for a block that goes to
\* another directory or whose body leaves the cwd alone
C25_TempChDirElsewhere ==
    (names_bound /\ block.at # "none" /\ (~PathIsCwd \/ ~block.body_chdir)) =>
        /\ ChangesAndRestores
        /\ (PathIsCwd /\ Exited) => block.self.old_dir = NoDir

\* the file as it is: the with statement raises NameError
C25_NameErrorReached ==
    block.at = "NameError" /\ ~names_bound

\* a block for '.' whose body changes the cwd ends in the directory of the body
C25_NotRestoredReached ==
    /\ names_bound /\ Exited /\ block.path = "." /\ cwd # block.entry_cwd

\* the three result fields agree on whether anything differs, and are in range
MetricsAgree ==
    /\ differ.num_diffs_perc = 0 <=> differ.diff_rms_perc = 0
    /\ differ.diff_rms_perc = 0 <=> differ.max_pix_diff = 0
MetricsInRange ==
    /\ differ.num_diffs_perc \in 0..(MaxPerc * FP)
    /\ differ.diff_rms_perc \in 0..(MaxPerc * FP)
    /\ differ.max_pix_diff \in 0..MaxPix

\* C26: after every get_diff the three metrics agree on whether anything differs
\* (num_diffs_perc = 0 iff diff_rms_perc = 0 iff max_pix_diff = 0) and lie in
\* 0..100, 0..100 and 0..255; they stem from the same comparison also after a get_diff
\* call that failed.
C26_MetricsAgree ==
    Returned => (MetricsAgree /\ MetricsInRange)

\* C26 for the calls that return
C26_MetricsAgreeWhenReturns ==
    (Returned /\ ret # "ZeroDivisionError") => (MetricsAgree /\ MetricsInRange /\ SameAsFresh)

\* a failed call after a comparison that found differences: max_pix_diff is that of the
\* failed call, the two percentages are those of the comparison before
C26_MixedFieldsReached ==
    /\ Returned /\ ret = "ZeroDivisionError"
    /\ differ.max_pix_diff = 0 /\ differ.num_diffs_perc # None /\ differ.num_diffs_perc > 0

\* the files the last call created, rewrote or deleted
Changed == {path \in FileNames : folder[path] # call.before[path]}
\* the last call left an existing reference at ref alone, and changed no file but a
\* missing reference and the two result files
ReferenceKept(ref) ==
    /\ exists(call.before, ref) => folder[ref] = call.before[ref]
    /\ Changed \subseteq {ref, ActualPath, DiffPath}

\* C27: once the reference file <fig_name>.png exists no check_widget_snapshot call for
\* that fig_name rewrites or deletes it: the reference is written only by the call that
\* finds it missing, and the only other files a call can create or delete are
\* <fig_name>_actual.png and <fig_name>_diff.png.
C27_ReferenceKept ==
    call.called => ReferenceKept(NamedRef)

\* C27 with the reference at the path line 227 computes, <fig_name> with its suffix
\* replaced by .png
C27_ReferenceKeptAtRefPixmapPath ==
    call.called => ReferenceKept(RefPixmapPath(fig_name))

\* C27 for a fig_name without suffix
C27_ReferenceKeptWithoutSuffix ==
    (call.called /\ fig_name.suffix = "") => ReferenceKept(NamedRef)

\* a call for a fig_name with a suffix creates a file that is none of the three
C27_OtherFileReached ==
    /\ call.called /\ fig_name.suffix = ".v2"
    /\ Changed = {"label.png"}

\* the call of reflow is over, and returned a string
Finished == result.kind \notin {"none", "running"}
ReturnedStr == result.kind = "str"
\* the text has a line that is not blank; the width leaves room after every indentation
SomeText == \E k \in DOMAIN lines : ~is_blank_line(lines[k])
RoomAfterIndent == width > 0 /\ \A k \in DOMAIN lines : IndentLen(lines[k]) <= width

\* C28: reflow's state is only ever 'new', 'paragraph' or 'list_item' and the
\* 'BUG! unknown state' RuntimeError is unreachable: for every text (the empty string
\* and texts of blank lines included) and every width reflow returns a string.
C28_ReturnsString ==
    /\ state \in {"new", "paragraph", "list_item"}
    /\ result.kind # "RuntimeError"
    /\ Finished => ReturnedStr

\* C28, the states alone
C28_KnownStates ==
    state \in {"new", "paragraph", "list_item"}

\* C28 for a text with a line that is not blank and a width with room after the
\* indentation of every line; the RuntimeError is that of a text without such a line
C28_ReturnsStringForSomeText ==
    /\ (Finished /\ SomeText /\ RoomAfterIndent) => ReturnedStr
    /\ result.kind = "RuntimeError" <=> (Finished /\ ~SomeText)

\* reflow of the empty string raises the RuntimeError
C28_RuntimeErrorReached ==
    text = <<>> /\ result.kind = "RuntimeError"

\* reflow never returns: a paragraph whose first line is indented more than a later one,
\* and a width smaller than that indentation
C28_NeverReturnsReached ==
    result.kind = "never returns" /\ width > 0

\* the whitespace-separated words of a string
WordsOf(s) == SelectSeq(split_chunks(s, <<>>), LAMBDA chunk : ~IsWhitespace(chunk))
\* the words of the lines of a text in their order, with <<>> for each blank line
RECURSIVE Profile(_)
Profile(strs) ==
    IF strs = <<>> THEN <<>>
    ELSE (IF is_blank_line(strs[1]) THEN << <<>> >> ELSE WordsOf(strs[1])) \o Profile(Tail(strs))
\* the lines of the string reflow returned
OutputLines == IF result.str = <<>> THEN <<>> ELSE split(result.str, <<>>)
\* line k follows a list item with no blank line and no other list item between: it is a
\* continuation line of the item
Continuation(k) ==
    /\ ~is_blank_line(lines[k]) /\ ~is_list_item(lines[k])
    /\ \E j \in 1..(k - 1) :
          /\ is_list_item(lines[j])
          /\ \A m \in (j + 1)..k : ~is_blank_line(lines[m]) /\ ~is_list_item(lines[m])
\* the longest chunk of the text fits into the width after the indentation and the '- '
RECURSIVE Longest(_)
Longest(chunks) ==
    IF chunks = <<>> THEN 0
    ELSE LET n == Longest(Tail(chunks))
         IN IF Len(Head(chunks)) > n THEN Len(Head(chunks)) ELSE n
WordsFit ==
    \A k \in DOMAIN lines :
        IndentLen(lines[k]) + 2 + Longest(split_chunks(lines[k], <<>>)) <= width

\* C29: reflow preserves content: the whitespace-separated words of the output are those
\* of the input in the same order, the words on the continuation lines of a list item
\* included, and every blank input line yields one blank output line at the same place
\* between the groups.
C29_ContentPreserved ==
    ReturnedStr => Profile(OutputLines) = Profile(lines)

\* C29 for a text without continuation lines of list items and without a list item that
\* is only '- ', and a width in which every word fits
C29_ContentPreservedWithoutContinuation ==
    (/\ ReturnedStr
     /\ WordsFit
     /\ \A k \in DOMAIN lines : ~Continuation(k) /\ strip(lines[k]) # <<"-">>)
        => Profile(OutputLines) = Profile(lines)

\* the words of a continuation line of a list item are not in the output
C29_ContinuationDroppedReached ==
    /\ ReturnedStr /\ width = 80
    /\ lines = << <<"-", " ", "g">>, <<"a", "b">> >>
    /\ result.str = <<"-", " ", "g">>

\* a word is broken in two by a narrow width
C29_WordBrokenReached ==
    /\ ReturnedStr /\ width = 1
    /\ lines = << <<"a", "b">> >>
    /\ result.str = <<"a", "\n", "b">>

\* the commands of an installation that has run both: the dry run and the install
HelmCommands == SelectSeq(commands, LAMBDA cmd : Head(cmd) = "helm")
Installed == helm.pc = "returned"
DryRunCmd == HelmCommands[1]
InstallCmd == HelmCommands[2]
\* where the chart path is in a command
ChartAt(cmd) == IF cmd[2] = "secrets" THEN 8 ELSE 7
\* a command without its chart path, and without the dry-run flags that follow the path
WithoutChart(cmd, flags) ==
    SubSeq(cmd, 1, ChartAt(cmd) - 1) \o SubSeq(cmd, ChartAt(cmd) + 1 + flags, Len(cmd))
DryRunFlags == <<"--dry-run", "--output", "json">>
\* the dry run is made on the chart folder, the install on its temporary copy; the two
\* commands are otherwise the same but for the dry-run flags
SameButForDryRun ==
    /\ Len(HelmCommands) = 2
    /\ DryRunCmd[ChartAt(DryRunCmd)] = helm.chart_dir_path
    /\ InstallCmd[ChartAt(InstallCmd)] = helm.tmp_chart_path
    /\ SubSeq(DryRunCmd, ChartAt(DryRunCmd) + 1, ChartAt(DryRunCmd) + 3) = DryRunFlags
    /\ WithoutChart(DryRunCmd, 3) = WithoutChart(InstallCmd, 0)
\* no install without a dry run before it; the chart folders are as they were
DryRunFirst ==
    \A k \in DOMAIN HelmCommands :
        DryRunFlags[1] \notin {HelmCommands[k][m] : m \in DOMAIN HelmCommands[k]} => k = 2
ChartKept ==
    /\ charts["chart/svc"] = ChartYaml
    /\ charts["deploy/app"] = ChartYaml

\* C30: install_hashed_chart computes the values hash from a dry run of the installation
\* it then performs: the dry-run command and the install command have the same release
\* name, namespace, with_secrets, values files, sets and extra helm args and differ only
\* by '--dry-run --output json' and the chart path (chart folder, temporary copy); the
\* dry run precedes the install and the original chart folder is never modified.
C30_SameInstallation ==
    /\ helm.pc # "none" => (DryRunFirst /\ ChartKept)
    /\ Installed => SameButForDryRun

\* C30 for the calls whose release name is the service name, given or by default
C30_SameInstallationForServiceName ==
    /\ helm.pc # "none" => (DryRunFirst /\ ChartKept)
    /\ (Installed /\ helm.release_name = helm.args.service_name) => SameButForDryRun

\* C30 but for the release name: the commands differ in nothing else
C30_SameButForReleaseName ==
    Installed =>
        \E cmd \in {[DryRunCmd EXCEPT ![ChartAt(DryRunCmd) - 1] = helm.release_name]} :
            /\ cmd[ChartAt(cmd)] = helm.chart_dir_path
            /\ SubSeq(cmd, ChartAt(cmd) + 1, ChartAt(cmd) + 3) = DryRunFlags
            /\ WithoutChart(cmd, 3) = WithoutChart(InstallCmd, 0)

\* an installation with release_name='rel': the dry run is made for release 'svc'
C30_OtherReleaseReached ==
    /\ Installed /\ helm.args.release_name = "rel"
    /\ DryRunCmd[ChartAt(DryRunCmd) - 1] = "svc"
    /\ InstallCmd[ChartAt(InstallCmd) - 1] = "rel"

====
